---- MODULE Spec2Model ----
(***************************************************************************)
(* Verification model of the Datathon repository:                          *)
(*   - tron/game_simulator.py : TronSimulator, test_agent                  *)
(*   - tron/pathfinder.py     : Pathfinder.bfs / a_star / flood_fill       *)
(*   - MCP/server.py          : MCPRequestHandler, run_server              *)
(* Positions are pairs <<x, y>>; the board is indexed board[y][x] as in    *)
(* the source.                                                             *)
(***************************************************************************)
EXTENDS Integers, Sequences, FiniteSets, TLC

VARIABLES
    \* ---- TronSimulator fields -------------------------------------------
    board,          \* self.board        : [0..height-1 -> [0..width-1 -> {0,1}]]
    my_pos,         \* self.my_pos       : <<x, y>>; NoPos before the first reset
    opp_pos,        \* self.opp_pos
    my_trail,       \* self.my_trail     : sequence of positions
    opp_trail,      \* self.opp_trail
    turn,           \* self.turn
    game_over,      \* self.game_over    : BOOLEAN (not read before the first reset)
    winner,         \* self.winner       : None | "win" | "lose" | "draw"
    opp_last_dir,   \* self.opp_last_dir : attribute absent (None) until a make_move sets it
    \* ---- observation of the last call on the simulator ------------------
    call,           \* [op, my, auto, pre_over] : the last call on the simulator
    result,         \* value returned (or exception raised) by the last call
    \* ---- Pathfinder: the arguments of a search and what each search returned
    p_board,        \* board argument   : [0..height-1 -> [0..width-1 -> {0,1}]]
    p_start,        \* start argument
    p_goal,         \* goal argument
    p_stage,        \* "idle" | "input" | "bfs" | "a_star" | "flood_fill" : last search run
    p_bfs,          \* value returned by bfs        (NoPath for None, NotRun before the call)
    p_a_star,       \* value returned by a_star
    p_fill,         \* value returned by flood_fill (a set of positions)
    \* ---- play_game and test_agent: locals and control position ------------
    pc,             \* "idle" | "pg_loop" | "pg_done" | "ta_tally" | "ta_loop"
    max_turns,      \* play_game argument
    ret,            \* value returned by the last play_game
    in_harness,     \* the running play_game was called by test_agent
    num_games,      \* test_agent argument
    games_played,   \* test_agent: iterations of the for loop completed
    results,        \* test_agent: the tallies {'win', 'lose', 'draw'}
    ta_outcome,     \* how the last test_agent ended: "returned" or the exception raised
    \* ---- MCP context server ------------------------------------------------
    s_state,        \* "init" | "serving" | "shutdown" : where run_server stands
    s_req,          \* the last request received : [method, path, length, body]
    s_resp,         \* the response sent to it   : [status, content_type, cors, payload]
    s_assembled,    \* the context assembler was invoked while handling the last request
    s_prev,         \* status of the response sent before the last one (0: none)
    s_count,        \* requests answered since run_server started
    \* ---- one /query request inside ContextAssembler ------------------------
    a_pc,           \* "idle", the stage whose outbound request is in flight, or "done"
    a_req,          \* [query, cfg] : the query and the configuration it runs under
    a_locals,       \* the locals of assemble_context and the fetchers' get_context
    a_out,          \* the outbound requests sent so far, in order
    a_resp,         \* [http, package] : the answer and the package behind it
    \* ---- the dashboard (maishanyun.py) ------------------------------------
    d_session,      \* st.session_state.loaded_dataframes : stem -> dataset
    d_uploads,      \* the files held by the sidebar's uploader, in order
    d_cache,        \* what @st.cache_data holds for load_data_files, by path
    d_latest,       \* per stem, the dataset of the last load operation giving it
    d_run,          \* the batches of the last run and the errors it reported
    f_view,         \* the Raw Data tab : the filter column, the range, the rows shown
    \* ---- a snapshot handed to an agent ------------------------------------
    g_snap          \* [taken, grid, edits] : the grid of the last get_state result

simVars == <<board, my_pos, opp_pos, my_trail, opp_trail, turn, game_over,
             winner, opp_last_dir>>
pathVars == <<p_board, p_start, p_goal, p_stage, p_bfs, p_a_star, p_fill>>
playVars == <<pc, max_turns, ret, in_harness, num_games, games_played, results,
              ta_outcome>>
srvVars == <<s_state, s_req, s_resp, s_assembled, s_prev, s_count>>
asmVars == <<a_pc, a_req, a_locals, a_out, a_resp>>
dashVars == <<d_session, d_uploads, d_cache, d_latest, d_run>>
uiVars == <<d_session, d_uploads, d_cache, d_latest, d_run, f_view>>
vars == <<board, my_pos, opp_pos, my_trail, opp_trail, turn, game_over,
          winner, opp_last_dir, call, result,
          p_board, p_start, p_goal, p_stage, p_bfs, p_a_star, p_fill,
          pc, max_turns, ret, in_harness, num_games, games_played, results, ta_outcome,
          s_state, s_req, s_resp, s_assembled, s_prev, s_count,
          a_pc, a_req, a_locals, a_out, a_resp,
          d_session, d_uploads, d_cache, d_latest, d_run, f_view, g_snap>>

\* ---------------------------------------------------------------------------
\* Bounds
\* ---------------------------------------------------------------------------
\* Board width and height given to TronSimulator(width, height).
width == 3
height == 2
\* Cap on self.turn for calls on a game that is not over.
MaxTurn == 2
\* Largest number of occupied cells on a board handed to the Pathfinder.
MaxWalls == 3
\* Largest max_turns passed to play_game by a direct caller.
MaxTurnsArg == 3
\* Largest num_games passed to test_agent.
MaxGames == 1
\* Least Manhattan distance between the two starts test_agent draws (5 on the
\* 20 x 18 board of the source, scaled to the board of the model).
MinStartGap == 2
\* play_game's default max_turns, which test_agent uses.
DefaultMaxTurns == 1000

\* The board of TronSimulator() built without arguments (line 15)
DefaultWidth == 20
DefaultHeight == 18

None == "None"
\* Placeholder of a position field that reset has not created yet.
NoPos == << >>

Xs == 0 .. (width - 1)
Ys == 0 .. (height - 1)
Cells == Xs \X Ys

\* self.directions
directions ==
    [up |-> <<0, -1>>, down |-> <<0, 1>>, left |-> <<-1, 0>>, right |-> <<1, 0>>]

\* The Move Directions: the keys of self.directions
Dirs == DOMAIN directions

EmptyBoard == [y \in Ys |-> [x \in Xs |-> 0]]

\* Record of the last call: op is the method; for a make_move on a game that was
\* not over, my is my_direction and auto tells that opp_direction was None (the
\* direction then used is opp_last_dir); pre_over is game_over at entry.
NoCall == [op |-> "init", my |-> None, auto |-> FALSE, pre_over |-> FALSE]

\* TronSimulator.__init__: only board exists; the fields reset creates hold
\* placeholders, and no method is called on them before the first reset.
SimInit ==
    /\ board = EmptyBoard
    /\ my_pos = NoPos
    /\ opp_pos = NoPos
    /\ my_trail = << >>
    /\ opp_trail = << >>
    /\ turn = 0
    /\ game_over = FALSE
    /\ winner = None
    /\ opp_last_dir = None

\* reset that marks the starts on the board it finds instead of on a fresh one
ResetFields_KeepsBoard(my_start, opp_start) ==
    /\ board' = [y \in Ys |-> [x \in Xs |->
                    IF <<x, y>> = my_start \/ <<x, y>> = opp_start THEN 1 ELSE board[y][x]]]
    /\ my_pos' = my_start
    /\ opp_pos' = opp_start
    /\ my_trail' = <<my_start>>
    /\ opp_trail' = <<opp_start>>
    /\ turn' = 0
    /\ game_over' = FALSE
    /\ winner' = None
    /\ UNCHANGED opp_last_dir

\* TronSimulator.reset: the successor values of the fields
ResetFields(my_start, opp_start) ==
    /\ board' = [y \in Ys |-> [x \in Xs |->
                    IF <<x, y>> = my_start \/ <<x, y>> = opp_start THEN 1 ELSE 0]]
    /\ my_pos' = my_start
    /\ opp_pos' = opp_start
    /\ my_trail' = <<my_start>>
    /\ opp_trail' = <<opp_start>>
    /\ turn' = 0
    /\ game_over' = FALSE
    /\ winner' = None
    /\ UNCHANGED opp_last_dir

\* TronSimulator.reset called directly
reset(my_start, opp_start) ==
    /\ ResetFields(my_start, opp_start)
    /\ call' = [NoCall EXCEPT !.op = "reset"]
    /\ result' = None
    /\ UNCHANGED <<pathVars, playVars, srvVars, asmVars, uiVars, g_snap>>

\* A row of a snapshot's grid: a list of its own, or (alias) the very list that
\* is the simulator's row of the same index
RowCopy_SameRow(y) == [alias |-> TRUE, cells |-> EmptyBoard[y]]

\* line 62, row[:] : a new list holding the cells of the simulator's row y
RowCopy(y) == [alias |-> FALSE, cells |-> board[y]]

\* line 62, [... for row in self.board] : a new outer list of the copied rows
GridCopy == [fresh |-> TRUE, rows |-> [y \in Ys |-> RowCopy(y)]]

\* TronSimulator.get_state (lines 59-66); getattr gives None while no make_move
\* has set opp_last_dir
get_state ==
    [my_position |-> my_pos,
     opponent_position |-> opp_pos,
     board |-> GridCopy,
     boosts |-> << >>,
     turns_remaining |-> 1000 - turn,
     opponent_last_direction |-> opp_last_dir]

\* Destination cell of a move (lines 126-130); only for recognised directions
NewPos(position, direction) ==
    <<position[1] + directions[direction][1], position[2] + directions[direction][2]>>

\* TronSimulator.is_valid_move, on the current board
is_valid_move(position, direction) ==
    IF direction \notin DOMAIN directions THEN FALSE
    ELSE LET new_x == position[1] + directions[direction][1]
             new_y == position[2] + directions[direction][2]
         IN  IF new_x < 0 \/ new_x >= width \/ new_y < 0 \/ new_y >= height THEN FALSE
             ELSE IF board[new_y][new_x] = 1 THEN FALSE
             ELSE TRUE

\* lines 112-117: the directions random.choice may return when opp_direction is None
valid_opp_moves == {d \in Dirs : is_valid_move(opp_pos, d)}

\* The opponent's direction drawn from all four directions
OppChoices_AnyDirection(opp_arg) ==
    IF opp_arg = None THEN Dirs ELSE {opp_arg}

OppChoices(opp_arg) ==
    IF opp_arg = None
    THEN (IF valid_opp_moves # {} THEN valid_opp_moves ELSE {"up"})
    ELSE {opp_arg}

\* Outcome without the same-destination test of line 137
Outcome_NoSameCell(my_direction, opp_direction) ==
    LET my_valid == is_valid_move(my_pos, my_direction)
        opp_valid == is_valid_move(opp_pos, opp_direction)
        my_new_pos == NewPos(my_pos, my_direction)
        opp_new_pos == NewPos(opp_pos, opp_direction)
    IN  IF my_new_pos = opp_pos /\ opp_new_pos = my_pos THEN "draw"
        ELSE IF ~my_valid /\ ~opp_valid THEN "draw"
        ELSE IF ~my_valid THEN "lose"
        ELSE IF ~opp_valid THEN "win"
        ELSE "continue"

\* Outcome with the results of lines 153-160 exchanged
Outcome_SwappedWinLose(my_direction, opp_direction) ==
    LET my_valid == is_valid_move(my_pos, my_direction)
        opp_valid == is_valid_move(opp_pos, opp_direction)
        my_new_pos == NewPos(my_pos, my_direction)
        opp_new_pos == NewPos(opp_pos, opp_direction)
    IN  IF my_new_pos = opp_new_pos THEN "draw"
        ELSE IF my_new_pos = opp_pos /\ opp_new_pos = my_pos THEN "draw"
        ELSE IF ~my_valid /\ ~opp_valid THEN "draw"
        ELSE IF ~my_valid THEN "win"
        ELSE IF ~opp_valid THEN "lose"
        ELSE "continue"

\* Outcome with collisions against the walls only: lines 133-134 without the
\* board test, and is_valid_move without lines 88-89
Outcome_WallsOnly(my_direction, opp_direction) ==
    LET my_new_pos == NewPos(my_pos, my_direction)
        opp_new_pos == NewPos(opp_pos, opp_direction)
        my_collision == my_new_pos \notin Cells
        opp_collision == opp_new_pos \notin Cells
    IN  IF my_new_pos = opp_new_pos THEN "draw"
        ELSE IF my_new_pos = opp_pos /\ opp_new_pos = my_pos THEN "draw"
        ELSE IF my_collision /\ opp_collision THEN "draw"
        ELSE IF my_collision THEN "lose"
        ELSE IF opp_collision THEN "win"
        ELSE "continue"

\* The outcome with the caller's collision tested before the draw of line 149
OutcomeFrom_CallerFirst(my_position, opp_position, my_direction, opp_direction) ==
    LET my_valid == is_valid_move(my_position, my_direction)
        opp_valid == is_valid_move(opp_position, opp_direction)
        my_new_pos == NewPos(my_position, my_direction)
        opp_new_pos == NewPos(opp_position, opp_direction)
        my_collision == ~my_valid \/ board[my_new_pos[2]][my_new_pos[1]] = 1
        opp_collision == ~opp_valid \/ board[opp_new_pos[2]][opp_new_pos[1]] = 1
    IN  IF my_new_pos = opp_new_pos THEN "draw"
        ELSE IF my_new_pos = opp_position /\ opp_new_pos = my_position THEN "draw"
        ELSE IF my_collision THEN "lose"
        ELSE IF opp_collision THEN "win"
        ELSE "continue"

\* lines 121-160: outcome of a turn of the players standing at my_position and
\* opp_position on the current board
OutcomeFrom(my_position, opp_position, my_direction, opp_direction) ==
    LET my_valid == is_valid_move(my_position, my_direction)
        opp_valid == is_valid_move(opp_position, opp_direction)
        my_new_pos == NewPos(my_position, my_direction)
        opp_new_pos == NewPos(opp_position, opp_direction)
        my_collision == ~my_valid \/ board[my_new_pos[2]][my_new_pos[1]] = 1
        opp_collision == ~opp_valid \/ board[opp_new_pos[2]][opp_new_pos[1]] = 1
    IN  IF my_new_pos = opp_new_pos THEN "draw"
        ELSE IF my_new_pos = opp_position /\ opp_new_pos = my_position THEN "draw"
        ELSE IF my_collision /\ opp_collision THEN "draw"
        ELSE IF my_collision THEN "lose"
        ELSE IF opp_collision THEN "win"
        ELSE "continue"

\* lines 132-160: outcome of a turn once both destinations are computed
Outcome(my_direction, opp_direction) ==
    OutcomeFrom(my_pos, opp_pos, my_direction, opp_direction)

\* The board with only the caller's destination marked
Occupy_MineOnly(b, my_new_pos, opp_new_pos) ==
    [y \in Ys |-> [x \in Xs |-> IF <<x, y>> = my_new_pos THEN 1 ELSE b[y][x]]]

\* lines 167-168: both destination cells are marked on the board
Occupy(b, my_new_pos, opp_new_pos) ==
    [y \in Ys |-> [x \in Xs |->
        IF <<x, y>> = my_new_pos \/ <<x, y>> = opp_new_pos THEN 1 ELSE b[y][x]]]

\* A trail that keeps only the newest position
Extend_Restart(trail, new_pos) == <<new_pos>>

\* lines 165-166: trail.append(new_pos)
Extend(trail, new_pos) == Append(trail, new_pos)

\* lines 109-170: a turn of a game that is not over
ApplyTurn(my_direction, opp_direction, res) ==
    /\ turn' = turn + 1
    /\ opp_last_dir' = opp_direction
    /\ IF my_direction \notin DOMAIN directions \/ opp_direction \notin DOMAIN directions
       THEN \* self.directions[...] raises KeyError (line 126 or 129)
            /\ res = "KeyError"
            /\ UNCHANGED <<board, my_pos, opp_pos, my_trail, opp_trail, game_over, winner>>
       ELSE LET out == Outcome(my_direction, opp_direction)
                my_new_pos == NewPos(my_pos, my_direction)
                opp_new_pos == NewPos(opp_pos, opp_direction)
            IN  /\ res = out
                /\ IF out = "continue"
                   THEN /\ my_pos' = my_new_pos
                        /\ opp_pos' = opp_new_pos
                        /\ my_trail' = Extend(my_trail, my_new_pos)
                        /\ opp_trail' = Extend(opp_trail, opp_new_pos)
                        /\ board' = Occupy(board, my_new_pos, opp_new_pos)
                        /\ UNCHANGED <<game_over, winner>>
                   ELSE /\ game_over' = TRUE
                        /\ winner' = out
                        /\ UNCHANGED <<board, my_pos, opp_pos, my_trail, opp_trail>>

\* The early return with self.turn += 1 placed before the game_over test
ReturnWinner_TurnFirst(res) ==
    /\ res = winner
    /\ turn' = turn + 1
    /\ UNCHANGED <<board, my_pos, opp_pos, my_trail, opp_trail, game_over, winner,
                   opp_last_dir>>

\* lines 106-107: the early return of make_move on a game that is over
ReturnWinner(res) ==
    /\ res = winner
    /\ UNCHANGED simVars

\* TronSimulator.make_move: the successor values of the fields and the value returned
MakeMoveFields(my_direction, opp_direction, res) ==
    IF game_over
    THEN ReturnWinner(res)
    ELSE ApplyTurn(my_direction, opp_direction, res)

\* reset has run at least once, so the game fields exist
HasReset == my_trail # << >>

\* TronSimulator.make_move called directly; opp_arg = None lets the simulator choose
make_move(my_direction, opp_arg) ==
    /\ HasReset
    /\ game_over \/ turn < MaxTurn
    /\ \E opp_direction \in (IF game_over THEN {opp_arg} ELSE OppChoices(opp_arg)) :
          /\ MakeMoveFields(my_direction, opp_direction, result')
          /\ call' = IF game_over
                      THEN [NoCall EXCEPT !.op = "make_move", !.pre_over = TRUE]
                      ELSE [op |-> "make_move", my |-> my_direction,
                            auto |-> (opp_arg = None), pre_over |-> FALSE]
    /\ UNCHANGED <<pathVars, playVars, srvVars, asmVars, uiVars, g_snap>>

\* ---------------------------------------------------------------------------
\* The snapshot of get_state in an agent's hands (tron/game_simulator.py)
\* ---------------------------------------------------------------------------
\* Assignments an agent makes to one snapshot, and the turns of the one game in
\* which snapshots are handed out
MaxEdits == 1
MaxSnapTurn == 1

NoSnap ==
    [taken |-> FALSE,
     grid |-> [fresh |-> TRUE,
               rows |-> [y \in Ys |-> [alias |-> FALSE, cells |-> EmptyBoard[y]]]],
     edits |-> 0]

SnapIdle == g_snap = NoSnap

\* The cell values an agent reads from the snapshot's grid
SnapGrid ==
    [y \in Ys |-> IF g_snap.grid.rows[y].alias THEN board[y]
                  ELSE g_snap.grid.rows[y].cells]

\* lines 191-193: state = self.get_state(), inside the loop of a running game
GetState ==
    /\ HasReset
    /\ ~game_over /\ turn < MaxSnapTurn
    /\ g_snap' = [taken |-> TRUE, grid |-> get_state.board, edits |-> 0]
    /\ UNCHANGED <<simVars, call, result, pathVars, playVars, srvVars, asmVars, uiVars>>

\* state['board'][y][x] = v, v the other value than the one read there: the
\* assignment lands in the list that is row y of the snapshot
AgentWriteCell ==
    /\ g_snap.taken
    /\ g_snap.edits < MaxEdits
    /\ \E y \in Ys, x \in Xs, v \in {0, 1} :
          /\ v = 1 - SnapGrid[y][x]
          /\ IF g_snap.grid.rows[y].alias
             THEN /\ board' = [board EXCEPT ![y][x] = v]
                  /\ g_snap' = [g_snap EXCEPT !.edits = @ + 1]
             ELSE /\ board' = board
                  /\ g_snap' = [g_snap EXCEPT !.edits = @ + 1,
                                              !.grid.rows[y].cells[x] = v]
    /\ UNCHANGED <<my_pos, opp_pos, my_trail, opp_trail, turn, game_over, winner,
                   opp_last_dir, call, result>>
    /\ UNCHANGED <<pathVars, playVars, srvVars, asmVars, uiVars>>

\* state['board'][y] = [0, ..., 0] : the assignment lands in the snapshot's outer
\* list
AgentReplaceRow ==
    /\ g_snap.taken
    /\ g_snap.edits < MaxEdits
    /\ \E y \in Ys :
          LET row == [x \in Xs |-> 0]
          IN  IF g_snap.grid.fresh
              THEN /\ board' = board
                   /\ g_snap' = [g_snap EXCEPT !.edits = @ + 1,
                                   !.grid.rows[y] = [alias |-> FALSE, cells |-> row]]
              ELSE /\ board' = [board EXCEPT ![y] = row]
                   /\ g_snap' = [g_snap EXCEPT !.edits = @ + 1]
    /\ UNCHANGED <<my_pos, opp_pos, my_trail, opp_trail, turn, game_over, winner,
                   opp_last_dir, call, result>>
    /\ UNCHANGED <<pathVars, playVars, srvVars, asmVars, uiVars>>

\* line 186: the reset that starts the game
SnapReset ==
    /\ ~HasReset
    /\ \E my_start \in Cells, opp_start \in Cells : ResetFields(my_start, opp_start)
    /\ call' = [NoCall EXCEPT !.op = "reset"]
    /\ result' = None
    /\ g_snap' = NoSnap
    /\ UNCHANGED <<pathVars, playVars, srvVars, asmVars, uiVars>>

\* lines 193-197: the turn made after the agent has had its snapshot; the next
\* turn's agent call gets a new one
SnapMove ==
    /\ HasReset
    /\ g_snap.taken
    /\ turn < MaxSnapTurn
    /\ \E my_direction \in Dirs, opp_arg \in Dirs \cup {None} :
       \E opp_direction \in (IF game_over THEN {opp_arg} ELSE OppChoices(opp_arg)) :
          /\ MakeMoveFields(my_direction, opp_direction, result')
          /\ call' = IF game_over
                      THEN [NoCall EXCEPT !.op = "make_move", !.pre_over = TRUE]
                      ELSE [op |-> "make_move", my |-> my_direction,
                            auto |-> (opp_arg = None), pre_over |-> FALSE]
    /\ g_snap' = NoSnap
    /\ UNCHANGED <<pathVars, playVars, srvVars, asmVars, uiVars>>

\* ---------------------------------------------------------------------------
\* Pathfinder (tron/pathfinder.py)
\* ---------------------------------------------------------------------------
\* A search returning None
NoPath == << >>
\* Result slot of a search that has not been called
NotRun == <<"not run">>

\* Pathfinder.directions (a list: up, down, left, right)
pf_directions == << <<0, -1>>, <<0, 1>>, <<-1, 0>>, <<1, 0>> >>

\* The test of lines 60-62, 119-121 and 160-162: in bounds and empty
Traversable(new_pos, b) ==
    /\ 0 <= new_pos[1] /\ new_pos[1] < width
    /\ 0 <= new_pos[2] /\ new_pos[2] < height
    /\ b[new_pos[2]][new_pos[1]] = 0

Step(pos, k) == <<pos[1] + pf_directions[k][1], pos[2] + pf_directions[k][2]>>

RECURSIVE BfsLoop(_, _, _, _), BfsExpand(_, _, _, _, _, _, _)

\* bfs lines 52-64: the for loop over self.directions, from direction k on
BfsExpand(pos, path, k, queue, visited, goal, b) ==
    IF k > Len(pf_directions) THEN BfsLoop(queue, visited, goal, b)
    ELSE LET new_pos == Step(pos, k)
         IN  IF new_pos = goal THEN Append(path, goal)
             ELSE IF new_pos \notin visited /\ Traversable(new_pos, b)
                  THEN BfsExpand(pos, path, k + 1,
                                 Append(queue, <<new_pos, Append(path, new_pos)>>),
                                 visited \cup {new_pos}, goal, b)
                  ELSE BfsExpand(pos, path, k + 1, queue, visited, goal, b)

\* bfs lines 49-66: the while loop over the queue of (position, path) pairs
BfsLoop(queue, visited, goal, b) ==
    IF queue = << >> THEN NoPath
    ELSE BfsExpand(Head(queue)[1], Head(queue)[2], 1, Tail(queue), visited, goal, b)

\* Pathfinder.bfs
bfs(start, goal, b) ==
    IF start = goal THEN <<start>>
    ELSE BfsLoop(<< <<start, <<start>> >> >>, {start}, goal, b)

\* a_star heuristic: Manhattan distance to the goal
Abs(n) == IF n < 0 THEN -n ELSE n
heuristic(pos, goal) == Abs(pos[1] - goal[1]) + Abs(pos[2] - goal[2])

\* The heap ordered by decreasing f: the entry with the largest f is popped first
HeapLess_LargestFirst(e1, e2) ==
    \/ e1[1] > e2[1]
    \/ e1[1] = e2[1] /\ e1[2][1] < e2[2][1]
    \/ e1[1] = e2[1] /\ e1[2][1] = e2[2][1] /\ e1[2][2] < e2[2][2]

\* Order of the heap entries (f, (x, y)): Python tuple comparison
HeapLess(e1, e2) ==
    \/ e1[1] < e2[1]
    \/ e1[1] = e2[1] /\ e1[2][1] < e2[2][1]
    \/ e1[1] = e2[1] /\ e1[2][1] = e2[2][1] /\ e1[2][2] < e2[2][2]

\* heappop: the least entry of the open set
HeapMin(open_set) == CHOOSE e \in open_set : \A o \in open_set \ {e} : HeapLess(e, o)

RECURSIVE Reconstruct(_, _, _)
\* a_star lines 108-112: follow came_from from the goal; path is built reversed
Reconstruct(current, came_from, path) ==
    IF current \in DOMAIN came_from
    THEN Reconstruct(came_from[current], came_from, <<came_from[current]>> \o path)
    ELSE path

RECURSIVE AStarLoop(_, _, _, _, _, _), AStarExpand(_, _, _, _, _, _, _, _)

\* a_star lines 115-129: the for loop over self.directions, from direction k on
AStarExpand(current, k, open_set, came_from, g_score, visited, goal, b) ==
    IF k > Len(pf_directions)
    THEN AStarLoop(open_set, came_from, g_score, visited, goal, b)
    ELSE LET neighbor == Step(current, k)
             tentative_g == g_score[current] + 1
         IN  IF /\ Traversable(neighbor, b)
                /\ (neighbor \notin DOMAIN g_score \/ tentative_g < g_score[neighbor])
             THEN AStarExpand(current, k + 1,
                      open_set \cup {<<tentative_g + heuristic(neighbor, goal), neighbor>>},
                      [c \in DOMAIN came_from \cup {neighbor} |->
                          IF c = neighbor THEN current ELSE came_from[c]],
                      [c \in DOMAIN g_score \cup {neighbor} |->
                          IF c = neighbor THEN tentative_g ELSE g_score[c]],
                      visited, goal, b)
             ELSE AStarExpand(current, k + 1, open_set, came_from, g_score, visited, goal, b)

\* a_star lines 98-131: the while loop over the open set
AStarLoop(open_set, came_from, g_score, visited, goal, b) ==
    IF open_set = {} THEN NoPath
    ELSE LET e == HeapMin(open_set)
             current == e[2]
             rest == open_set \ {e}
         IN  IF current \in visited
             THEN AStarLoop(rest, came_from, g_score, visited, goal, b)
             ELSE IF current = goal
                  THEN Reconstruct(current, came_from, <<current>>)
                  ELSE AStarExpand(current, 1, rest, came_from, g_score,
                                   visited \cup {current}, goal, b)

\* Pathfinder.a_star
a_star(start, goal, b) ==
    IF start = goal THEN <<start>>
    ELSE AStarLoop({<<0, start>>}, << >>, [c \in {start} |-> 0], {}, goal, b)

RECURSIVE PopsLoop(_, _, _, _, _, _, _), PopsExpand(_, _, _, _, _, _, _, _, _)

\* The same for loop with every heappush numbered: heap holds [entry, n], n the
\* number of the push that inserted the entry
PopsExpand(current, k, heap, pops, pushed, g_score, visited, goal, b) ==
    IF k > Len(pf_directions)
    THEN PopsLoop(heap, pops, pushed, g_score, visited, goal, b)
    ELSE LET neighbor == Step(current, k)
             tentative_g == g_score[current] + 1
         IN  IF /\ Traversable(neighbor, b)
                /\ (neighbor \notin DOMAIN g_score \/ tentative_g < g_score[neighbor])
             THEN PopsExpand(current, k + 1,
                      heap \cup {[entry |-> <<tentative_g + heuristic(neighbor, goal), neighbor>>,
                                  n |-> pushed + 1]},
                      pops, pushed + 1,
                      [c \in DOMAIN g_score \cup {neighbor} |->
                          IF c = neighbor THEN tentative_g ELSE g_score[c]],
                      visited, goal, b)
             ELSE PopsExpand(current, k + 1, heap, pops, pushed, g_score, visited, goal, b)

\* The same while loop, recording for every heappop what was removed and what
\* the heap held at that moment
PopsLoop(heap, pops, pushed, g_score, visited, goal, b) ==
    IF heap = {} THEN pops
    ELSE LET e == HeapMin({h.entry : h \in heap})
             popped == CHOOSE h \in heap : h.entry = e
             rest == heap \ {popped}
             seen == Append(pops, [popped |-> popped, heap |-> heap])
         IN  IF e[2] \in visited
             THEN PopsLoop(rest, seen, pushed, g_score, visited, goal, b)
             ELSE IF e[2] = goal
                  THEN seen
                  ELSE PopsExpand(e[2], 1, rest, seen, pushed, g_score,
                                  visited \cup {e[2]}, goal, b)

\* The heappops of a_star(start, goal, b), in order
a_star_pops(start, goal, b) ==
    IF start = goal THEN << >>
    ELSE PopsLoop({[entry |-> <<0, start>>, n |-> 0]}, << >>, 0,
                  [c \in {start} |-> 0], {}, goal, b)

RECURSIVE FillLoop(_, _, _), FillExpand(_, _, _, _, _)

\* flood_fill lines 155-164: the for loop over self.directions, from direction k on
FillExpand(pos, k, queue, visited, b) ==
    IF k > Len(pf_directions) THEN FillLoop(queue, visited, b)
    ELSE LET new_pos == Step(pos, k)
         IN  IF new_pos \notin visited /\ Traversable(new_pos, b)
             THEN FillExpand(pos, k + 1, Append(queue, new_pos), visited \cup {new_pos}, b)
             ELSE FillExpand(pos, k + 1, queue, visited, b)

\* flood_fill lines 152-166: the while loop over the queue
FillLoop(queue, visited, b) ==
    IF queue = << >> THEN visited
    ELSE FillExpand(Head(queue), 1, Tail(queue), visited, b)

\* flood_fill that returns nothing for an occupied start cell
flood_fill_EmptyStartOnly(start, b) ==
    IF b[start[2]][start[1]] = 1 THEN {} ELSE FillLoop(<<start>>, {start}, b)

\* Pathfinder.flood_fill
flood_fill(start, b) == FillLoop(<<start>>, {start}, b)

\* Boards with at most MaxWalls occupied cells
Boards ==
    {[y \in Ys |-> [x \in Xs |-> IF <<x, y>> \in walls THEN 1 ELSE 0]] :
        walls \in {w \in SUBSET Cells : Cardinality(w) <= MaxWalls}}

\* No search is in progress (the state of the path variables in the other specifications)
PathIdle ==
    /\ p_board = EmptyBoard
    /\ p_start = <<0, 0>>
    /\ p_goal = <<0, 0>>
    /\ p_stage = "idle"
    /\ p_bfs = NotRun
    /\ p_a_star = NotRun
    /\ p_fill = {}

\* The arguments of the three searches: any board, any two in-bounds positions
PathInputs ==
    /\ p_board \in Boards
    /\ p_start \in Cells
    /\ p_goal \in Cells
    /\ p_stage = "input"
    /\ p_bfs = NotRun
    /\ p_a_star = NotRun
    /\ p_fill = {}

simAndCall == <<board, my_pos, opp_pos, my_trail, opp_trail, turn, game_over,
                winner, opp_last_dir, call, result>>

RunBfs ==
    /\ p_stage = "input"
    /\ p_bfs' = bfs(p_start, p_goal, p_board)
    /\ p_stage' = "bfs"
    /\ UNCHANGED <<p_board, p_start, p_goal, p_a_star, p_fill, simAndCall, playVars, srvVars, asmVars, uiVars, g_snap>>

RunAStar ==
    /\ p_stage = "bfs"
    /\ p_a_star' = a_star(p_start, p_goal, p_board)
    /\ p_stage' = "a_star"
    /\ UNCHANGED <<p_board, p_start, p_goal, p_bfs, p_fill, simAndCall, playVars, srvVars, asmVars, uiVars, g_snap>>

RunFloodFill ==
    /\ p_stage = "a_star"
    /\ p_fill' = flood_fill(p_start, p_board)
    /\ p_stage' = "flood_fill"
    /\ UNCHANGED <<p_board, p_start, p_goal, p_bfs, p_a_star, simAndCall, playVars, srvVars, asmVars, uiVars, g_snap>>

\* ---------------------------------------------------------------------------
\* play_game and test_agent (tron/game_simulator.py)
\* ---------------------------------------------------------------------------
NoTallies == [win |-> 0, lose |-> 0, draw |-> 0]

\* Neither play_game nor test_agent has been called (lines 269-271: the script
\* is about to start)
PlayIdle ==
    /\ pc = "main"
    /\ max_turns = 0
    /\ ret = None
    /\ in_harness = FALSE
    /\ num_games = 0
    /\ games_played = 0
    /\ results = NoTallies
    /\ ta_outcome = None

harnessVars == <<num_games, games_played, results, ta_outcome>>

\* play_game lines 186-189: reset, then enter the loop
PlayGameEnter(my_start, opp_start, turns_arg, from_harness) ==
    /\ board' = [y \in Ys |-> [x \in Xs |->
                    IF <<x, y>> = my_start \/ <<x, y>> = opp_start THEN 1 ELSE 0]]
    /\ my_pos' = my_start
    /\ opp_pos' = opp_start
    /\ my_trail' = <<my_start>>
    /\ opp_trail' = <<opp_start>>
    /\ turn' = 0
    /\ game_over' = FALSE
    /\ winner' = None
    /\ call' = [NoCall EXCEPT !.op = "reset"]
    /\ result' = None
    /\ max_turns' = turns_arg
    /\ in_harness' = from_harness
    /\ ret' = None
    /\ pc' = "pg_loop"

\* lines 276-277: play_game called by the script on a new simulator
play_game ==
    /\ pc = "main"
    /\ \E my_start \in Cells, opp_start \in Cells, turns_arg \in 0 .. MaxTurnsArg :
          PlayGameEnter(my_start, opp_start, turns_arg, FALSE)
    /\ UNCHANGED <<opp_last_dir, harnessVars, pathVars, srvVars, asmVars, uiVars, g_snap>>

\* The loop condition with <= in place of <
LoopCond_OffByOne == ~game_over /\ turn <= max_turns

\* line 191: the condition of the while loop
LoopCond == ~game_over /\ turn < max_turns

\* lines 192-203: one iteration; the agent's move is any Move Direction and the
\* opponent's is chosen by make_move
PlayTurn ==
    /\ pc = "pg_loop"
    /\ LoopCond
    /\ \E my_move \in Dirs :
          \E opp_direction \in (IF game_over THEN {None} ELSE OppChoices(None)) :
             /\ MakeMoveFields(my_move, opp_direction, result')
             /\ call' = IF game_over
                         THEN [NoCall EXCEPT !.op = "make_move", !.pre_over = TRUE]
                         ELSE [op |-> "make_move", my |-> my_move,
                               auto |-> TRUE, pre_over |-> FALSE]
    /\ pc' = IF result' # "continue" THEN "pg_done" ELSE "pg_loop"
    /\ UNCHANGED <<max_turns, ret, in_harness, harnessVars, pathVars, srvVars, asmVars, uiVars, g_snap>>

\* line 191: the loop condition is false
PlayLoopExit ==
    /\ pc = "pg_loop"
    /\ ~LoopCond
    /\ pc' = "pg_done"
    /\ UNCHANGED <<simAndCall, max_turns, ret, in_harness, harnessVars, pathVars, srvVars, asmVars, uiVars, g_snap>>

\* lines 205-212: the value returned, to test_agent or to the script (which ends)
PlayReturn ==
    /\ pc = "pg_done"
    /\ ret' = IF game_over THEN winner ELSE "draw"
    /\ pc' = IF in_harness THEN "ta_tally" ELSE "exit"
    /\ UNCHANGED <<simAndCall, max_turns, in_harness, harnessVars, pathVars, srvVars, asmVars, uiVars, g_snap>>

\* test_agent lines 239-243: a new simulator (the one of Init) and zeroed tallies
test_agent ==
    /\ pc = "main"
    /\ \E n \in 0 .. MaxGames : num_games' = n
    /\ games_played' = 0
    /\ results' = NoTallies
    /\ ta_outcome' = None
    /\ pc' = "ta_loop"
    /\ UNCHANGED <<simAndCall, max_turns, ret, in_harness, pathVars, srvVars, asmVars, uiVars, g_snap>>

Manhattan(a, c) == Abs(a[1] - c[1]) + Abs(a[2] - c[2])

\* lines 245-254: draw the starts (the opponent's re-drawn until far enough) and
\* call play_game with the default max_turns on the simulator of test_agent
TestAgentGame ==
    /\ pc = "ta_loop"
    /\ games_played < num_games
    /\ \E my_start \in Cells, opp_start \in Cells :
          /\ ~(Manhattan(my_start, opp_start) < MinStartGap)
          /\ PlayGameEnter(my_start, opp_start, DefaultMaxTurns, TRUE)
    /\ UNCHANGED <<opp_last_dir, harnessVars, pathVars, srvVars, asmVars, uiVars, g_snap>>

\* line 255: results[result] += 1, and the for loop advances
TestAgentTally ==
    /\ pc = "ta_tally"
    /\ results' = [results EXCEPT ![ret] = @ + 1]
    /\ games_played' = games_played + 1
    /\ pc' = "ta_loop"
    /\ UNCHANGED <<simAndCall, max_turns, ret, in_harness, num_games, ta_outcome, pathVars, srvVars, asmVars, uiVars, g_snap>>

\* lines 261-266: the final report divides by num_games (line 263) and by
\* num_games - results['draw'] (line 266)
ReportOutcome ==
    IF num_games = 0 \/ num_games - results.draw = 0
    THEN "ZeroDivisionError"
    ELSE "returned"

\* lines 257-266: the loop is exhausted; test_agent reports and returns to the
\* script, or the exception of the report ends the script.
TestAgentReport ==
    /\ pc = "ta_loop"
    /\ ~(games_played < num_games)
    /\ ta_outcome' = ReportOutcome
    /\ pc' = "exit"
    /\ UNCHANGED <<simAndCall, max_turns, ret, in_harness, num_games, games_played,
                   results, pathVars, srvVars, asmVars, uiVars, g_snap>>

\* ---------------------------------------------------------------------------
\* maishanyun.py : the sidebar's data loading, one script run per interaction
\* ---------------------------------------------------------------------------
\* Files in the uploader and files of one directory listing
MaxUploads == 2
MaxDirFiles == 2

Stems == {"sales", "costs"}
Contents == {"A", "B"}
Absent == "absent"
DirPaths == {"", "data", "nowhere"}

\* A file: the stem of its name, what it parses to, and whether it parses
DataFile(stem, content) == [stem |-> stem, content |-> content, ok |-> TRUE]
BrokenFile(stem) == [stem |-> stem, content |-> Absent, ok |-> FALSE]
Files == {DataFile(s, c) : s \in Stems, c \in Contents}
            \cup {BrokenFile(s) : s \in Stems}

\* rglob('*') of the directory, in the order it yields the data files
Listings == UNION {[1..n -> Files] : n \in 0..MaxDirFiles}

EmptyDict == [k \in Stems |-> Absent]

\* the try/except around one file: the frame is stored under the stem, or the
\* error is reported and the loop goes on (lines 52-59 and 136-143)
LoadOne(dfs, file) ==
    IF file.ok THEN [dfs EXCEPT ![file.stem] = file.content] ELSE dfs

RECURSIVE LoadAll(_, _)
LoadAll(dfs, files) ==
    IF files = << >> THEN dfs
    ELSE LoadAll(LoadOne(dfs, Head(files)), Tail(files))

Reported(files) == {files[i].stem : i \in {j \in DOMAIN files : ~files[j].ok}}

\* lines 41-61: load_data_files(directory_path), uncached
load_data_files(directory_path, listing) ==
    IF directory_path = "nowhere"
    THEN [dfs |-> EmptyDict, errors |-> {}, files |-> << >>]
    ELSE [dfs |-> LoadAll(EmptyDict, listing), errors |-> Reported(listing),
          files |-> listing]

NotCached == [cached |-> FALSE, dfs |-> EmptyDict, errors |-> {}, files |-> << >>]

\* line 41, @st.cache_data: the first result for an argument is stored and
\* returned, with the messages it showed, for every later call
CachedLoad(cache, directory_path, listing) ==
    IF cache[directory_path].cached
    THEN [dfs |-> cache[directory_path].dfs, errors |-> cache[directory_path].errors,
          files |-> cache[directory_path].files]
    ELSE load_data_files(directory_path, listing)

\* dict.update (line 155)
update(session, dfs) ==
    [k \in Stems |-> IF dfs[k] # Absent THEN dfs[k] ELSE session[k]]

\* lines 133-143: every file held by the uploader is read on every run, each
\* run being handed the files anew
UploadLoop(session, uploads) == LoadAll(session, uploads)

\* one run of the script: the upload loop, then the directory branch; added
\* is the file the user has just put into the uploader, if any
Rerun(uploads, added, clicked, directory_path, listing) ==
    LET afterUploads == UploadLoop(d_session, uploads)
        loaded == CachedLoad(d_cache, directory_path, listing)
        load == clicked /\ directory_path # ""
    IN  /\ d_uploads' = uploads
        /\ d_session' = IF load THEN update(afterUploads, loaded.dfs)
                        ELSE afterUploads
        /\ d_cache' = IF load
                      THEN [d_cache EXCEPT ![directory_path] =
                               [cached |-> TRUE, dfs |-> loaded.dfs,
                                errors |-> loaded.errors, files |-> loaded.files]]
                      ELSE d_cache
        /\ d_run' = [uploads |-> uploads,
                     upload_errors |-> Reported(uploads),
                     listing |-> IF load THEN loaded.files ELSE << >>,
                     dir_errors |-> IF load THEN loaded.errors ELSE {}]
        /\ d_latest' =
               LET byUpload == LoadAll(d_latest, added)
               IN  IF load THEN update(byUpload, loaded.dfs) ELSE byUpload

\* the user adds a file to the uploader
Upload ==
    /\ Len(d_uploads) < MaxUploads
    /\ \E file \in Files :
          Rerun(Append(d_uploads, file), <<file>>, FALSE, "", << >>)
    /\ UNCHANGED <<simAndCall, pathVars, playVars, srvVars, asmVars, f_view, g_snap>>

\* the user presses "Load from Directory" with a path in the text input
LoadFromDirectory ==
    /\ \E directory_path \in DirPaths :
       \E listing \in (IF directory_path = "data" /\ ~d_cache["data"].cached
                       THEN Listings ELSE {<< >>}) :
          Rerun(d_uploads, << >>, TRUE, directory_path, listing)
    /\ UNCHANGED <<simAndCall, pathVars, playVars, srvVars, asmVars, f_view, g_snap>>

\* any other widget interaction runs the script again
Interact ==
    /\ Rerun(d_uploads, << >>, FALSE, "", << >>)
    /\ UNCHANGED <<simAndCall, pathVars, playVars, srvVars, asmVars, f_view, g_snap>>

NoRun == [uploads |-> << >>, upload_errors |-> {}, listing |-> << >>, dir_errors |-> {}]

\* lines 37-38: a new session starts with no dataframes
DashIdle ==
    /\ d_session = EmptyDict
    /\ d_uploads = << >>
    /\ d_cache = [p \in DirPaths |-> NotCached]
    /\ d_latest = EmptyDict
    /\ d_run = NoRun

\* ---------------------------------------------------------------------------
\* maishanyun.py : the Raw Data tab's filter on a numeric column
\* ---------------------------------------------------------------------------
\* Rows of a dataset and the largest value of its numeric column
MaxRows == 3
MaxValue == 3

\* One row's cell in the filter column: a number, or missing (NaN)
Cell(v) == [missing |-> FALSE, value |-> v]
MissingCell == [missing |-> TRUE, value |-> 0]
CellValues == {Cell(v) : v \in 0..MaxValue} \cup {MissingCell}

\* The filter column of a dataset, row by row
Columns == UNION {[1..n -> CellValues] : n \in 0..MaxRows}

\* Series.min() and Series.max() skip missing values
Present(col) == {col[i].value : i \in {j \in DOMAIN col : ~col[j].missing}}
SeriesMin(col) == CHOOSE v \in Present(col) : \A w \in Present(col) : v <= w
SeriesMax(col) == CHOOSE v \in Present(col) : \A w \in Present(col) : v >= w

\* lines 397-400: (col >= lo) & (col <= hi); a comparison with NaN is False
InRange(cell, lo, hi) ==
    ~cell.missing /\ cell.value >= lo /\ cell.value <= hi

\* the rows of filtered_df, by their index in df
filtered_df(col, lo, hi) == {i \in DOMAIN col : InRange(col[i], lo, hi)}

NoView == [col |-> << >>, applied |-> FALSE, lo |-> 0, hi |-> 0, rows |-> {}]

FilterIdle == f_view = NoView

\* lines 389-400: the script runs with the slider of the chosen numeric column
\* at (lo, hi); the slider spans min_val..max_val and needs min_val < max_val
RawDataFilter ==
    /\ Present(f_view.col) # {}
    /\ SeriesMin(f_view.col) < SeriesMax(f_view.col)
    /\ \E lo \in SeriesMin(f_view.col)..SeriesMax(f_view.col) :
       \E hi \in lo..SeriesMax(f_view.col) :
          f_view' = [f_view EXCEPT !.applied = TRUE, !.lo = lo, !.hi = hi,
                                   !.rows = filtered_df(f_view.col, lo, hi)]
    /\ UNCHANGED <<simAndCall, pathVars, playVars, srvVars, asmVars, dashVars, g_snap>>

\* ---------------------------------------------------------------------------
\* MCP/server.py : MCPRequestHandler and run_server
\* ---------------------------------------------------------------------------
\* Requests answered in one run of the server
MaxRequests == 3

Methods == {"GET", "POST", "PUT", "DELETE"}

\* "/other" stands for every path that is none of the three the handlers name
\* (a path with a query string, such as /health?x=1, included)
Paths == {"/query", "/health", "/", "/other"}

\* The Content-Length header: a number, absent, or text that int() rejects
Lengths == {"ok", "missing", "not a number"}

\* The bytes read from the request, by what the handler can tell about them:
\* bytes that are no UTF-8, text that is no JSON, a JSON array, a JSON scalar
\* (number, string, true, false, null), or a JSON object whose 'query' member
\* is absent, the empty string, another falsy value (null, 0, false, [], {}),
\* a non-empty string, or a truthy value that is no string (a number).
Bodies ==
    {[kind |-> k, query |-> "absent"] :
        k \in {"invalid utf-8", "malformed", "array", "scalar"}}
    \cup {[kind |-> "object", query |-> q] :
        q \in {"absent", "empty", "falsy", "text", "number"}}

Requests == [method : Methods, path : Paths, length : Lengths, body : Bodies]

\* What the assembler does with a query that is a string: it returns a package,
\* or a fetcher meets data of an unexpected shape and raises (for instance
\* get_current_weather indexing data['main'] of a reply that has none).
AssemblerOutcomes == {"package", "KeyError"}

NoRequest == [method |-> None, path |-> None, length |-> None,
              body |-> [kind |-> None, query |-> None]]
NoResponse == [status |-> 0, content_type |-> None, cors |-> FALSE,
               payload |-> [success |-> FALSE, error |-> None]]

SrvIdle ==
    /\ s_state = "init"
    /\ s_req = NoRequest
    /\ s_resp = NoResponse
    /\ s_assembled = FALSE
    /\ s_prev = 0
    /\ s_count = 0

_send_json_response(status_code, data) ==
    [status |-> status_code, content_type |-> "application/json", cors |-> TRUE,
     payload |-> data]

_send_error(status_code, message) ==
    _send_json_response(status_code, [success |-> FALSE, error |-> message])

\* except Exception as e (lines 467-468); str(e) is stood for by the name of
\* the exception's class
InternalServerError(e) == _send_error(500, "Internal Server Error: " \o e)

\* The response of do_POST and whether it invoked the assembler
Handled(resp, invoked) == [resp |-> resp, assembled |-> invoked]

do_POST(req, asm) ==
    IF req.path # "/query"
    THEN Handled(_send_error(404, "Not Found"), FALSE)
    \* line 440: int(self.headers['Content-Length'])
    ELSE IF req.length = "missing"
    THEN Handled(InternalServerError("TypeError"), FALSE)
    ELSE IF req.length = "not a number"
    THEN Handled(InternalServerError("ValueError"), FALSE)
    \* line 442: post_data.decode('utf-8'), then json.loads
    ELSE IF req.body.kind = "invalid utf-8"
    THEN Handled(InternalServerError("UnicodeDecodeError"), FALSE)
    ELSE IF req.body.kind = "malformed"
    THEN Handled(_send_error(400, "Invalid JSON"), FALSE)
    \* line 444: data.get('query', '') on a value that is no dict
    ELSE IF req.body.kind \in {"array", "scalar"}
    THEN Handled(InternalServerError("AttributeError"), FALSE)
    \* lines 445-447: if not query
    ELSE IF req.body.query \in {"absent", "empty", "falsy"}
    THEN Handled(_send_error(400, "Missing 'query' field"), FALSE)
    \* lines 450-451: assemble_context starts with query.lower()
    ELSE IF req.body.query = "number"
    THEN Handled(InternalServerError("AttributeError"), TRUE)
    ELSE IF asm # "package"
    THEN Handled(InternalServerError(asm), TRUE)
    ELSE Handled(_send_json_response(200, [success |-> TRUE,
                                            query |-> req.body.query]), TRUE)

HealthPayload == [status |-> "healthy",
                  service |-> "MCP Developer Intelligence Server"]

ServiceInfo == [service |-> "Developer Intelligence MCP Server",
                version |-> "1.0.0"]

\* A GET answers /health with the error payload of an unknown path
do_GET_HealthUnknown(path) ==
    IF path = "/"
    THEN _send_json_response(200, ServiceInfo)
    ELSE _send_error(404, "Not Found")

do_GET(path) ==
    IF path = "/health"
    THEN _send_json_response(200, HealthPayload)
    ELSE IF path = "/"
    THEN _send_json_response(200, ServiceInfo)
    ELSE _send_error(404, "Not Found")

\* The handler class defines do_POST and do_GET only: for any other method
\* BaseHTTPRequestHandler finds no do_<METHOD> and answers 501 itself, with
\* its own HTML error page and none of the headers of _send_json_response.
UnsupportedMethod ==
    [status |-> 501, content_type |-> "text/html", cors |-> FALSE,
     payload |-> [success |-> FALSE, error |-> "Unsupported method"]]

\* serve_forever answers one request and goes on to wait for the next
Respond(req, resp, invoked) ==
    /\ s_state = "serving"
    /\ s_count < MaxRequests
    /\ s_req' = req
    /\ s_resp' = resp
    /\ s_assembled' = invoked
    /\ s_prev' = s_resp.status
    /\ s_count' = s_count + 1
    /\ s_state' = "serving"
    /\ UNCHANGED <<simAndCall, pathVars, playVars, asmVars, uiVars, g_snap>>

\* lines 503-513: the server is created and serve_forever is entered
run_server ==
    /\ s_state = "init"
    /\ s_state' = "serving"
    /\ UNCHANGED <<s_req, s_resp, s_assembled, s_prev, s_count>>
    /\ UNCHANGED <<simAndCall, pathVars, playVars, asmVars, uiVars, g_snap>>

HandlePOST ==
    \E req \in Requests, asm \in AssemblerOutcomes :
        /\ req.method = "POST"
        /\ Respond(req, do_POST(req, asm).resp, do_POST(req, asm).assembled)

HandleGET ==
    \E req \in Requests :
        /\ req.method = "GET"
        /\ Respond(req, do_GET(req.path), FALSE)

HandleOtherMethod ==
    \E req \in Requests :
        /\ req.method \notin {"GET", "POST"}
        /\ Respond(req, UnsupportedMethod, FALSE)

\* lines 514-516: Ctrl+C ends serve_forever and the server is shut down
KeyboardInterrupt ==
    /\ s_state = "serving"
    /\ s_state' = "shutdown"
    /\ UNCHANGED <<s_req, s_resp, s_assembled, s_prev, s_count>>
    /\ UNCHANGED <<simAndCall, pathVars, playVars, asmVars, uiVars, g_snap>>

\* ---------------------------------------------------------------------------
\* MCP/server.py : ContextAnalyzer, the fetchers and ContextAssembler
\* ---------------------------------------------------------------------------
\* Items a source-hosting reply can carry
MaxItems == 4

GITHUB_KEYWORDS ==
    {"github", "repo", "repository", "issue", "pr", "pull request",
     "commit", "code", "branch", "merge", "push", "pull"}

WEATHER_KEYWORDS ==
    {"weather", "temperature", "rain", "snow", "sunny", "cloudy",
     "forecast", "outside", "outdoor", "meeting outside"}

TIME_KEYWORDS ==
    {"today", "tomorrow", "yesterday", "now", "time", "date",
     "schedule", "deadline", "due", "when"}

\* str.lower on the letters of the alphabet the queries are written in
LowerOf ==
    ("A" :> "a") @@ ("B" :> "b") @@ ("C" :> "c") @@ ("D" :> "d") @@
    ("E" :> "e") @@ ("F" :> "f") @@ ("G" :> "g") @@ ("H" :> "h") @@
    ("I" :> "i") @@ ("J" :> "j") @@ ("K" :> "k") @@ ("L" :> "l") @@
    ("M" :> "m") @@ ("N" :> "n") @@ ("O" :> "o") @@ ("P" :> "p") @@
    ("Q" :> "q") @@ ("R" :> "r") @@ ("S" :> "s") @@ ("T" :> "t") @@
    ("U" :> "u") @@ ("V" :> "v") @@ ("W" :> "w") @@ ("X" :> "x") @@
    ("Y" :> "y") @@ ("Z" :> "z")

CharAt(s, i) == SubSeq(s, i, i)

RECURSIVE LowerFrom(_, _)
LowerFrom(s, i) ==
    IF i > Len(s) THEN ""
    ELSE (IF CharAt(s, i) \in DOMAIN LowerOf THEN LowerOf[CharAt(s, i)]
          ELSE CharAt(s, i)) \o LowerFrom(s, i + 1)

lower(s) == LowerFrom(s, 1)

\* Python's  k in s  on strings
Occurs(k, s) ==
    \E i \in 1..(Len(s) - Len(k) + 1) : SubSeq(s, i, i + Len(k) - 1) = k

\* analyze with the time flag set to true whatever the query
analyze_TimeForced(query) ==
    LET query_lower == lower(query) IN
    [github |-> \E keyword \in GITHUB_KEYWORDS : Occurs(keyword, query_lower),
     weather |-> \E keyword \in WEATHER_KEYWORDS : Occurs(keyword, query_lower),
     time |-> TRUE,
     always_fetch_time |-> TRUE]

\* lines 37-46
analyze(query) ==
    LET query_lower == lower(query) IN
    [github |-> \E keyword \in GITHUB_KEYWORDS : Occurs(keyword, query_lower),
     weather |-> \E keyword \in WEATHER_KEYWORDS : Occurs(keyword, query_lower),
     time |-> \E keyword \in TIME_KEYWORDS : Occurs(keyword, query_lower),
     always_fetch_time |-> TRUE]

\* re.search(r'repo[sitory]*[: ]+(\w+)', query, re.IGNORECASE)
WordChars ==
    DOMAIN LowerOf \cup {LowerOf[c] : c \in DOMAIN LowerOf}
    \cup {"0", "1", "2", "3", "4", "5", "6", "7", "8", "9", "_"}

\* the index after the longest run, starting at i, of characters whose lower
\* case is in C (the three classes of the pattern do not overlap, so the
\* greedy match is the only one)
RECURSIVE RunEnd(_, _, _)
RunEnd(s, i, C) ==
    IF i <= Len(s) /\ lower(CharAt(s, i)) \in C THEN RunEnd(s, i + 1, C) ELSE i

\* the match that starts at index i, as <<first, last>> of group 1, or << >>
RepoMatchAt(s, i) ==
    IF i + 3 > Len(s) \/ lower(SubSeq(s, i, i + 3)) # "repo" THEN << >>
    ELSE LET j == RunEnd(s, i + 4, {"s", "i", "t", "o", "r", "y"})
             k == RunEnd(s, j, {":", " "})
             m == RunEnd(s, k, WordChars)
         IN IF k > j /\ m > k THEN <<k, m - 1>> ELSE << >>

\* group(1) of the leftmost match, or None
repo_match(query) ==
    LET starts == {i \in 1..Len(query) : RepoMatchAt(query, i) # << >>} IN
    IF starts = {} THEN None
    ELSE LET i == CHOOSE i \in starts : \A i2 \in starts : i <= i2
             g == RepoMatchAt(query, i)
         IN SubSeq(query, g[1], g[2])

\* ---- the fetchers --------------------------------------------------------
\* What an upstream API sends back to one request, as _make_request and its
\* caller can tell: "failure" is a transport error, a timeout, a status that
\* is not 2xx or a body that is no JSON (urlopen or json.loads raises inside
\* the try); "empty" is a JSON body that is falsy ([] or {}); "items" is a
\* body of the expected shape with n entries; "misshapen" is a JSON body of
\* another shape (an object where a list is expected, entries that are no
\* objects, a weather object without 'main').
ItemCounts == 1..MaxItems

GitHubReplies ==
    {[kind |-> k, n |-> 0] : k \in {"failure", "empty", "misshapen"}}
    \cup {[kind |-> "items", n |-> n] : n \in ItemCounts}

\* for the forecast, "no list" is an object without the 'list' member and
\* "misshapen" an object whose 'list' entries lack 'dt', 'main' or 'weather'
CurrentReplies ==
    {[kind |-> k, n |-> 0] : k \in {"failure", "empty", "misshapen"}}
    \cup {[kind |-> "items", n |-> 1]}

ForecastReplies ==
    {[kind |-> k, n |-> 0] : k \in {"failure", "empty", "misshapen", "no list"}}
    \cup {[kind |-> "items", n |-> n] : n \in ItemCounts}

\* the value a fetcher method returns, or the exception it raises
Ret(v) == [val |-> v, exc |-> None]
Raise(e) == [val |-> << >>, exc |-> e]

\* _make_request: None for a failure, the parsed body otherwise
NoData == [kind |-> "None", n |-> 0]
_make_request(reply) == IF reply.kind = "failure" THEN NoData ELSE reply

Falsy(data) == data.kind \in {"None", "empty"}

Min(a, c) == IF a < c THEN a ELSE c

\* data[:limit] mapped to the result entries, each named by its index
Take(n, limit) == [i \in 1..Min(n, limit) |-> i]

\* lines 75-94
get_user_repos(data, limit) ==
    IF Falsy(data) THEN Ret(<< >>)
    ELSE IF data.kind = "items" THEN Ret(Take(data.n, limit))
    ELSE Raise("TypeError")

\* lines 96-119
get_recent_issues(data, limit) ==
    IF Falsy(data) THEN Ret(<< >>)
    ELSE IF data.kind = "items" THEN Ret(Take(data.n, limit))
    ELSE Raise("TypeError")

\* lines 121-148
get_recent_prs(data, limit) ==
    IF Falsy(data) THEN Ret(<< >>)
    ELSE IF data.kind = "items" THEN Ret(Take(data.n, limit))
    ELSE Raise("TypeError")

NoWeather == [obtained |-> FALSE]

\* lines 203-216
get_current_weather(data) ==
    IF Falsy(data) THEN Ret(NoWeather)
    ELSE IF data.kind = "items" THEN Ret([obtained |-> TRUE])
    ELSE Raise("KeyError")

\* lines 218-232
get_forecast(data, days) ==
    IF Falsy(data) \/ data.kind = "no list" THEN Ret(<< >>)
    ELSE IF data.kind = "items" THEN Ret(Take(data.n, days * 2))
    ELSE Raise("KeyError")

\* ---- one /query request through ContextAssembler ---------------------------
Queries ==
    {"hello there", "show my repos", "open issues in Repo: datathon",
     "any PR to review", "april sprint", "latest commit", "Weather today",
     "forecast for tomorrow", "is it sunny", "merge the branch when sunny",
     "weather, repo issues and pull requests"}

\* GITHUB_TOKEN / GITHUB_USERNAME / WEATHER_API_KEY are set (non-empty) or not
Configs == [token : BOOLEAN, username : BOOLEAN, api_key : BOOLEAN]

\* The outbound requests of one assemble_context, in the order of the code
Stages == <<"repos", "issues", "prs", "fallback_repos", "fallback_issues",
            "current", "forecast">>

GitHubStages == {"repos", "issues", "prs", "fallback_repos", "fallback_issues"}
WeatherStages == {"current", "forecast"}

\* The locals of assemble_context and of the get_context it is in
Locals(query) ==
    [needs |-> analyze(query), repo |-> repo_match(query),
     repos |-> << >>, issues |-> << >>, prs |-> << >>, fallback |-> FALSE,
     current |-> NoWeather, forecast |-> << >>, exc |-> None]

\* the code reaches the fetcher call of this stage
Wanted(stage, query, L) ==
    LET q == lower(query) IN
    CASE stage = "repos" ->
            L.needs.github /\ (Occurs("repo", q) \/ Occurs("repository", q))
      [] stage = "issues" -> L.needs.github /\ Occurs("issue", q)
      [] stage = "prs" ->
            L.needs.github /\ (Occurs("pr", q) \/ Occurs("pull request", q))
      [] stage \in {"fallback_repos", "fallback_issues"} -> L.fallback
      [] stage = "current" -> L.needs.weather
      [] stage = "forecast" ->
            L.needs.weather /\ (Occurs("forecast", q) \/ Occurs("tomorrow", q))

\* A source-hosting fetch goes out as soon as the token is set
Configured_TokenOnly(stage, cfg) ==
    IF stage \in GitHubStages THEN cfg.token ELSE cfg.api_key

\* the fetcher of this stage gets as far as urlopen: the guards on username
\* (lines 77, 98, 123) and on token (line 59), or on api_key (line 191), pass
Configured(stage, cfg) ==
    IF stage \in GitHubStages THEN cfg.username /\ cfg.token ELSE cfg.api_key

\* the request sent at this stage; the entry is completed with the kind of the
\* reply once _make_request has it
InFlight == "in flight"

Sent(api, what, repo, limit) ==
    [api |-> api, what |-> what, repo |-> repo, limit |-> limit, reply |-> InFlight]

Endpoint(stage, query, L) ==
    CASE stage = "repos" -> Sent("github", "repos", None, 5)
      [] stage = "issues" -> Sent("github", "issues", L.repo, 5)
      [] stage = "prs" -> Sent("github", "prs", L.repo, 5)
      [] stage = "fallback_repos" -> Sent("github", "repos", None, 3)
      [] stage = "fallback_issues" -> Sent("github", "issues", None, 3)
      [] stage = "current" -> Sent("weather", "weather", None, 0)
      [] stage = "forecast" ->
            Sent("weather", "forecast", None,
                 (IF Occurs("tomorrow", lower(query)) THEN 1 ELSE 3) * 8)

\* the locals once the fetcher of this stage has returned or raised
Store(L, field, r) ==
    IF r.exc # None THEN [L EXCEPT !.exc = r.exc]
    ELSE [L EXCEPT ![field] = r.val]

Receive(stage, reply, query, L) ==
    LET data == _make_request(reply) IN
    CASE stage = "repos" -> Store(L, "repos", get_user_repos(data, 5))
      [] stage = "issues" -> Store(L, "issues", get_recent_issues(data, 5))
      [] stage = "prs" -> Store(L, "prs", get_recent_prs(data, 5))
      [] stage = "fallback_repos" -> Store(L, "repos", get_user_repos(data, 3))
      [] stage = "fallback_issues" -> Store(L, "issues", get_recent_issues(data, 3))
      [] stage = "current" -> Store(L, "current", get_current_weather(data))
      [] stage = "forecast" ->
            Store(L, "forecast",
                  get_forecast(data, IF Occurs("tomorrow", lower(query)) THEN 1 ELSE 3))

\* line 174: the test that guards both fallback fetches
FallbackTest(L) ==
    L.needs.github /\ L.repos = << >> /\ L.issues = << >> /\ L.prs = << >>

\* The code runs on from stage i to the next request it sends, or to its end:
\* a fetcher that is not called or not configured leaves its empty result.
RECURSIVE Run(_, _, _, _)
Run(i, query, cfg, L) ==
    IF L.exc # None \/ i > Len(Stages) THEN [pc |-> "done", L |-> L]
    ELSE LET L1 == IF Stages[i] = "fallback_repos"
                   THEN [L EXCEPT !.fallback = FallbackTest(L)] ELSE L
         IN IF Wanted(Stages[i], query, L1) /\ Configured(Stages[i], cfg)
            THEN [pc |-> Stages[i], L |-> L1]
            ELSE Run(i + 1, query, cfg, L1)

StageIndex(stage) == CHOOSE i \in 1..Len(Stages) : Stages[i] = stage

\* GitHub is listed whenever the github flag is set
ListsGitHub_OnFlag(L) == L.needs.github

\* lines 319-323
ListsGitHub(L) ==
    L.needs.github /\ (L.repos # << >> \/ L.issues # << >> \/ L.prs # << >>)

\* lines 326-330
ListsWeather(L) == L.needs.weather /\ L.current.obtained

\* lines 333-336
ListsTime(L) == L.needs.time \/ L.needs.always_fetch_time

\* The source names with the weather branch run before the GitHub branch
Appended_WeatherFirst(github, weather, time) ==
    (IF weather THEN <<"Weather">> ELSE << >>)
        \o (IF github THEN <<"GitHub">> ELSE << >>)
        \o (IF time THEN <<"Time/Date">> ELSE << >>)

\* lines 322, 329 and 335: the sources.append calls, in the order of the code
Appended(github, weather, time) ==
    (IF github THEN <<"GitHub">> ELSE << >>)
        \o (IF weather THEN <<"Weather">> ELSE << >>)
        \o (IF time THEN <<"Time/Date">> ELSE << >>)

\* lines 306-338
assemble_context(query, L) ==
    LET github == ListsGitHub(L)
        weather == ListsWeather(L)
        time == ListsTime(L)
        q == lower(query)
    IN [query |-> query,
        sources |-> Appended(github, weather, time),
        context |->
            [k \in (IF github THEN {"github"} ELSE {})
                   \cup (IF weather THEN {"weather"} ELSE {})
                   \cup (IF time THEN {"time"} ELSE {}) |->
                CASE k = "github" ->
                        [source |-> "GitHub", repos |-> L.repos,
                         issues |-> L.issues, prs |-> L.prs]
                  [] k = "weather" ->
                        [source |-> "Weather", current |-> L.current,
                         forecast |-> L.forecast]
                  [] k = "time" ->
                        [source |-> "Time/Date",
                         tomorrow |-> Occurs("tomorrow", q),
                         yesterday |-> Occurs("yesterday", q)]]]

NoPackage == [query |-> None, sources |-> << >>, context |-> << >>]

\* The POST /query request that carries a query string
QueryRequest ==
    [method |-> "POST", path |-> "/query", length |-> "ok",
     body |-> [kind |-> "object", query |-> "text"]]

\* do_POST lines 449-468 once assemble_context has returned or raised
Answer(query, L) ==
    [http |-> do_POST(QueryRequest, IF L.exc = None THEN "package" ELSE L.exc).resp,
     package |-> IF L.exc = None THEN assemble_context(query, L) ELSE NoPackage]

NoAnswer == [http |-> NoResponse, package |-> NoPackage]

AsmIdle ==
    /\ a_pc = "idle"
    /\ a_req = [query |-> None, cfg |-> [token |-> FALSE, username |-> FALSE,
                                         api_key |-> FALSE]]
    /\ a_locals = Locals("")
    /\ a_out = << >>
    /\ a_resp = NoAnswer

\* The code runs from stage i with locals L up to its next request or its answer
Proceed(i, query, cfg, L, out) ==
    LET r == Run(i, query, cfg, L) IN
    /\ a_pc' = r.pc
    /\ a_locals' = r.L
    /\ a_out' = IF r.pc = "done" THEN out
                ELSE Append(out, Endpoint(r.pc, query, r.L))
    /\ a_resp' = IF r.pc = "done" THEN Answer(query, r.L) ELSE NoAnswer

\* do_POST receives a query and assemble_context starts
PostQuery ==
    /\ a_pc = "idle"
    /\ \E query \in Queries, cfg \in Configs :
          /\ a_req' = [query |-> query, cfg |-> cfg]
          /\ Proceed(1, query, cfg, Locals(query), << >>)
    /\ UNCHANGED <<simAndCall, pathVars, playVars, srvVars, uiVars, g_snap>>

\* the log of requests once the one in flight has its reply
Replied(out, reply) == [out EXCEPT ![Len(out)].reply = reply.kind]

\* The source-hosting API answers the request in flight (or fails to)
GitHubReply ==
    /\ a_pc \in GitHubStages
    /\ \E reply \in GitHubReplies :
          Proceed(StageIndex(a_pc) + 1, a_req.query, a_req.cfg,
                  Receive(a_pc, reply, a_req.query, a_locals),
                  Replied(a_out, reply))
    /\ UNCHANGED <<a_req, simAndCall, pathVars, playVars, srvVars, uiVars, g_snap>>

\* The weather API answers the request in flight (or fails to)
WeatherReply ==
    /\ a_pc \in WeatherStages
    /\ \E reply \in (IF a_pc = "current" THEN CurrentReplies ELSE ForecastReplies) :
          Proceed(StageIndex(a_pc) + 1, a_req.query, a_req.cfg,
                  Receive(a_pc, reply, a_req.query, a_locals),
                  Replied(a_out, reply))
    /\ UNCHANGED <<a_req, simAndCall, pathVars, playVars, srvVars, uiVars, g_snap>>

InitAssembler ==
    /\ SimInit
    /\ call = NoCall
    /\ result = None
    /\ PathIdle
    /\ PlayIdle
    /\ SrvIdle
    /\ AsmIdle
    /\ DashIdle
    /\ FilterIdle
    /\ SnapIdle

NextAssembler == PostQuery \/ GitHubReply \/ WeatherReply

SpecAssembler == InitAssembler /\ [][NextAssembler]_vars

InitServer ==
    /\ SimInit
    /\ call = NoCall
    /\ result = None
    /\ PathIdle
    /\ PlayIdle
    /\ SrvIdle
    /\ AsmIdle
    /\ DashIdle
    /\ FilterIdle
    /\ SnapIdle

NextServer ==
    \/ run_server
    \/ HandlePOST
    \/ HandleGET
    \/ HandleOtherMethod
    \/ KeyboardInterrupt

SpecServer == InitServer /\ [][NextServer]_vars

InitPlay ==
    /\ SimInit
    /\ call = NoCall
    /\ result = None
    /\ PathIdle
    /\ PlayIdle
    /\ SrvIdle
    /\ AsmIdle
    /\ DashIdle
    /\ FilterIdle
    /\ SnapIdle

\* The script calls play_game once
NextPlay ==
    \/ play_game
    \/ PlayTurn
    \/ PlayLoopExit
    \/ PlayReturn

\* The script calls test_agent, which calls play_game once per game
\* (test_agent passes no max_turns, so each game runs with the default 1000: a
\* game on the boards of this model ends long before, the loop of play_game is
\* left by its break only, and the exit through the loop condition is no step
\* of this specification.)
NextAgent ==
    \/ test_agent
    \/ TestAgentGame
    \/ PlayTurn
    \/ PlayReturn
    \/ TestAgentTally
    \/ TestAgentReport

\* The steps taken inside a call of play_game or test_agent
Running ==
    \/ PlayTurn
    \/ PlayLoopExit
    \/ PlayReturn
    \/ TestAgentGame
    \/ TestAgentTally
    \/ TestAgentReport

\* Once called, play_game and test_agent run on: the code is sequential, so the
\* one step that is enabled inside a call is eventually taken.
PlayFairness == WF_vars(Running)

SpecPlay == InitPlay /\ [][NextPlay]_vars /\ PlayFairness

SpecAgent == InitPlay /\ [][NextAgent]_vars /\ PlayFairness

InitPath ==
    /\ SimInit
    /\ call = NoCall
    /\ result = None
    /\ PathInputs
    /\ PlayIdle
    /\ SrvIdle
    /\ AsmIdle
    /\ DashIdle
    /\ FilterIdle
    /\ SnapIdle

NextPath == RunBfs \/ RunAStar \/ RunFloodFill

SpecPath == InitPath /\ [][NextPath]_vars

\* ---------------------------------------------------------------------------
\* The simulator called directly
\* ---------------------------------------------------------------------------
Init ==
    /\ SimInit
    /\ call = NoCall
    /\ result = None
    /\ PathIdle
    /\ PlayIdle
    /\ SrvIdle
    /\ AsmIdle
    /\ DashIdle
    /\ FilterIdle
    /\ SnapIdle

DoReset == \E my_start \in Cells, opp_start \in Cells : reset(my_start, opp_start)

DoMakeMove == \E my_direction \in Dirs, opp_arg \in Dirs \cup {None} :
                 make_move(my_direction, opp_arg)

Next == DoReset \/ DoMakeMove

Spec == Init /\ [][Next]_vars

\* Direction strings that are no key of self.directions
OtherDirs == {"north"}

\* make_move with such a string as the caller's or as the opponent's direction
DoMakeMoveUnrecognised ==
    \E my_direction \in Dirs \cup OtherDirs, opp_arg \in Dirs \cup OtherDirs \cup {None} :
        /\ my_direction \in OtherDirs \/ opp_arg \in OtherDirs
        /\ make_move(my_direction, opp_arg)

NextAnyDirection == DoReset \/ DoMakeMove \/ DoMakeMoveUnrecognised

SpecAnyDirection == Init /\ [][NextAnyDirection]_vars

InitSnapshot ==
    /\ SimInit
    /\ call = NoCall
    /\ result = None
    /\ PathIdle
    /\ PlayIdle
    /\ SrvIdle
    /\ AsmIdle
    /\ DashIdle
    /\ FilterIdle
    /\ SnapIdle

NextSnapshot == SnapReset \/ GetState \/ AgentWriteCell \/ AgentReplaceRow \/ SnapMove

SpecSnapshot == InitSnapshot /\ [][NextSnapshot]_vars

\* ---------------------------------------------------------------------------
\* One game played to its end by direct calls
\* ---------------------------------------------------------------------------
\* The number of turns the claim allows a game on a w x h board
TurnBoundOn(w, h) == (w * h - 2) \div 2 + 1
TurnBound == TurnBoundOn(width, height)

\* reset on a new simulator, with any two start cells
GameReset ==
    /\ ~HasReset
    /\ \E my_start \in Cells, opp_start \in Cells : ResetFields(my_start, opp_start)
    /\ call' = [NoCall EXCEPT !.op = "reset"]
    /\ result' = None
    /\ UNCHANGED <<pathVars, playVars, srvVars, asmVars, uiVars, g_snap>>

\* make_move with both directions given; the guard on turn lets a game run one
\* turn past the bound and no further
GameMove ==
    /\ HasReset
    /\ game_over \/ turn <= TurnBound
    /\ \E my_direction \in Dirs, opp_direction \in Dirs :
          /\ MakeMoveFields(my_direction, opp_direction, result')
          /\ call' = IF game_over
                      THEN [NoCall EXCEPT !.op = "make_move", !.pre_over = TRUE]
                      ELSE [op |-> "make_move", my |-> my_direction,
                            auto |-> FALSE, pre_over |-> FALSE]
    /\ UNCHANGED <<pathVars, playVars, srvVars, asmVars, uiVars, g_snap>>

NextGame == GameReset \/ GameMove

SpecGame == Init /\ [][NextGame]_vars

\* ---------------------------------------------------------------------------
\* The dashboard
\* ---------------------------------------------------------------------------
InitSession ==
    /\ SimInit
    /\ call = NoCall
    /\ result = None
    /\ PathIdle
    /\ PlayIdle
    /\ SrvIdle
    /\ AsmIdle
    /\ DashIdle
    /\ FilterIdle
    /\ SnapIdle

NextSession == Upload \/ LoadFromDirectory \/ Interact

SpecSession == InitSession /\ [][NextSession]_vars

InitFilter ==
    /\ SimInit
    /\ call = NoCall
    /\ result = None
    /\ PathIdle
    /\ PlayIdle
    /\ SrvIdle
    /\ AsmIdle
    /\ DashIdle
    /\ \E col \in Columns : f_view = [NoView EXCEPT !.col = col]
    /\ SnapIdle

NextFilter == RawDataFilter

SpecFilter == InitFilter /\ [][NextFilter]_vars

\* ---------------------------------------------------------------------------
\* Claims about the context server
\* ---------------------------------------------------------------------------
\* The last request was a POST to /query whose body could be read in full
PostedQuery ==
    /\ s_req.method = "POST"
    /\ s_req.path = "/query"
    /\ s_req.length = "ok"

\* The body of the last request is a JSON object without a 'query' member or
\* with an empty one
QueryMissingOrEmpty ==
    /\ s_req.body.kind = "object"
    /\ s_req.body.query \in {"absent", "empty"}

\* The body of the last request is not well-formed JSON
NotWellFormedJson == s_req.body.kind \in {"invalid utf-8", "malformed"}

\* C9: a POST to /query whose JSON body has a missing or empty 'query' field,
\* or whose body is not well-formed JSON, is answered 400 with an error
\* payload carrying success = false, and the context assembler is not invoked.
C9_BadBodyIs400 ==
    (PostedQuery /\ (QueryMissingOrEmpty \/ NotWellFormedJson)) =>
        /\ s_resp.status = 400
        /\ s_resp.payload.success = FALSE
        /\ ~s_assembled

\* A request was answered in this step
Answered == s_count' = s_count + 1

HealthResponse ==
    [status |-> 200, content_type |-> "application/json", cors |-> TRUE,
     payload |-> [status |-> "healthy",
                  service |-> "MCP Developer Intelligence Server"]]

\* A health check arrives and is answered 200 with the fixed payload
HealthCheck ==
    \E req \in Requests :
        /\ req.method = "GET"
        /\ req.path = "/health"
        /\ Respond(req, HealthResponse, FALSE)

Failures == {"TypeError", "ValueError", "UnicodeDecodeError", "AttributeError",
             "KeyError"}

\* C10: whatever requests were answered before (500 for an internal failure,
\* with the failure's message in an error payload, 400 and 404 included), the
\* server is still serving after each answer: only the interrupt ends it, the
\* next health check can be made, and every GET /health is answered 200 with
\* the fixed payload {status: healthy, service: MCP Developer Intelligence
\* Server}.
C10_StillServing ==
    /\ [][Answered => s_state' = "serving"]_vars
    /\ [][(s_state = "serving" /\ s_state' # "serving") =>
              (KeyboardInterrupt /\ ~Answered)]_vars
    /\ []((s_state = "serving" /\ s_count < MaxRequests) => ENABLED HealthCheck)
    /\ []((s_req.method = "GET" /\ s_req.path = "/health") =>
              s_resp = HealthResponse)
    /\ [](s_resp.status = 500 =>
              /\ s_resp.payload.success = FALSE
              /\ \E e \in Failures :
                    s_resp.payload.error = "Internal Server Error: " \o e)

\* A health check answered right after a request that failed internally
C10_Witness ==
    /\ s_state = "serving"
    /\ s_prev = 500
    /\ s_req.method = "GET"
    /\ s_req.path = "/health"
    /\ s_resp.status = 200
    /\ s_resp.payload = [status |-> "healthy",
                         service |-> "MCP Developer Intelligence Server"]

\* The last request is one of the three method/path combinations the handlers
\* serve
ServedCombination ==
    \/ (s_req.method = "POST" /\ s_req.path = "/query")
    \/ (s_req.method = "GET" /\ s_req.path \in {"/health", "/"})

\* C11: every request whose method/path combination is not POST /query,
\* GET /health or GET / (GET /query, POST /health, a PUT or DELETE on any
\* path) is answered 404 with a JSON error payload.
C11_OtherIs404 ==
    (s_count > 0 /\ ~ServedCombination) =>
        /\ s_resp.status = 404
        /\ s_resp.content_type = "application/json"
        /\ s_resp.payload.success = FALSE

\* ---------------------------------------------------------------------------
\* Claims about the context assembler and the fetchers
\* ---------------------------------------------------------------------------
\* assemble_context has returned its package
PackageBuilt == a_pc = "done" /\ a_locals.exc = None

Lists(name) == \E i \in 1..Len(a_resp.package.sources) :
                   a_resp.package.sources[i] = name

\* C12: the package built by assemble_context always lists 'Time/Date'; it
\* lists 'GitHub' only if the GitHub fetch returned at least one non-empty
\* list among repos, issues and prs, and 'Weather' only if the weather flag was
\* set and current weather was obtained.
C12_SourcesListed ==
    PackageBuilt =>
        /\ Lists("Time/Date")
        /\ Lists("GitHub") =>
              (a_locals.repos # << >> \/ a_locals.issues # << >>
               \/ a_locals.prs # << >>)
        /\ Lists("Weather") =>
              (a_locals.needs.weather /\ a_locals.current.obtained)

\* The github flag was set, requests were sent, all came back without entries,
\* and the package leaves GitHub out
C12_Witness ==
    /\ PackageBuilt
    /\ a_locals.needs.github
    /\ \E i \in 1..Len(a_out) : a_out[i].api = "github"
    /\ a_locals.repos = << >> /\ a_locals.issues = << >> /\ a_locals.prs = << >>
    /\ ~Lists("GitHub")
    /\ Lists("Time/Date")

\* A reply that is an upstream failure: a transport error, timeout, non-2xx
\* status or unparseable body ("failure"), or a parsed body without the
\* expected shape or fields ("misshapen", "no list")
UpstreamFailure(entry) == entry.reply \in {"failure", "misshapen", "no list"}

\* C13: every upstream failure of the source-hosting or weather API during a
\* /query request degrades to an empty or absent result for that source: it is
\* not propagated, the source whose requests failed is omitted, and the
\* response is still 200.
C13_FailuresDegrade ==
    (a_pc = "done" /\ \E i \in 1..Len(a_out) : UpstreamFailure(a_out[i])) =>
        /\ a_locals.exc = None
        /\ a_resp.http.status = 200
        /\ \A api \in {"github", "weather"} :
              (\A i \in 1..Len(a_out) :
                  a_out[i].api = api => UpstreamFailure(a_out[i]))
              => \/ \A i \in 1..Len(a_out) : a_out[i].api # api
                 \/ ~Lists(IF api = "github" THEN "GitHub" ELSE "Weather")

\* The configuration the request runs under
NoGitHubConfig == ~a_req.cfg.token \/ ~a_req.cfg.username
NoWeatherConfig == ~a_req.cfg.api_key

\* C14: without the source-hosting token or username every GitHub fetch
\* returns an empty list, raises nothing and sends no request; without the
\* weather key the current weather is absent and the forecast empty, again with
\* no request sent.
C14_UnconfiguredIsSilent ==
    /\ NoGitHubConfig =>
          /\ \A i \in 1..Len(a_out) : a_out[i].api # "github"
          /\ a_locals.repos = << >> /\ a_locals.issues = << >> /\ a_locals.prs = << >>
          /\ a_locals.exc # "TypeError"
    /\ NoWeatherConfig =>
          /\ \A i \in 1..Len(a_out) : a_out[i].api # "weather"
          /\ a_locals.current = NoWeather /\ a_locals.forecast = << >>
          /\ a_locals.exc # "KeyError"

\* A query that asks for repositories, issues, pull requests and the weather
\* was answered
\* with a username but no token and no weather key: nothing was sent
C14_Witness ==
    /\ a_pc = "done"
    /\ a_req.cfg = [token |-> FALSE, username |-> TRUE, api_key |-> FALSE]
    /\ a_locals.needs.github /\ a_locals.needs.weather
    /\ Wanted("repos", a_req.query, a_locals)
    /\ Wanted("issues", a_req.query, a_locals)
    /\ Wanted("prs", a_req.query, a_locals)
    /\ a_locals.fallback
    /\ a_out = << >>
    /\ a_resp.http.status = 200
    /\ a_resp.package.sources = <<"Time/Date">>

\* The keyword checks of get_context, on the lower-cased query of the request
AsksRepos == Occurs("repo", lower(a_req.query)) \/ Occurs("repository", lower(a_req.query))
AsksIssues == Occurs("issue", lower(a_req.query))
AsksPrs == Occurs("pr", lower(a_req.query)) \/ Occurs("pull request", lower(a_req.query))

\* C24: get_context makes the fallback fetches (3 repos, 3 issues) only when
\* none of the three keyword checks fired and no data was gathered; when a check
\* fired, whatever its fetch returned, no fallback fetch is made and the lists
\* the query did not ask for stay empty.
C24_FallbackOnlyWithoutKeyword ==
    (a_pc = "done" /\ a_locals.needs.github) =>
        /\ a_locals.fallback => ~(AsksRepos \/ AsksIssues \/ AsksPrs)
        /\ (AsksRepos \/ AsksIssues \/ AsksPrs) =>
              /\ \A i \in 1..Len(a_out) : ~(a_out[i].api = "github" /\ a_out[i].limit = 3)
              /\ ~AsksRepos => a_locals.repos = << >>
              /\ ~AsksIssues => a_locals.issues = << >>
              /\ ~AsksPrs => a_locals.prs = << >>

\* The source names in the order of the specification, and the context key of each
SourceOrder == <<"GitHub", "Weather", "Time/Date">>
KeyOf(name) ==
    CASE name = "GitHub" -> "github"
      [] name = "Weather" -> "weather"
      [] name = "Time/Date" -> "time"

\* s lists some of the names of order, each once, in the order of order
IsSubsequence(s, order) ==
    LET Listed(name) == \E i \in 1..Len(s) : s[i] = name
    IN  s = SelectSeq(order, Listed)

\* C25: in every package built by assemble_context, sources is a subsequence of
\* [GitHub, Weather, Time/Date] in that order without repeats, and a source name
\* is in sources if and only if its key (github, weather, time) is present in
\* the package's context mapping.
C25_SourcesMatchContext ==
    PackageBuilt =>
        /\ IsSubsequence(a_resp.package.sources, SourceOrder)
        /\ \A i \in 1..Len(SourceOrder) :
              Lists(SourceOrder[i]) <=>
                  KeyOf(SourceOrder[i]) \in DOMAIN a_resp.package.context

\* C25 witness: a package listing all three sources and holding all three keys
C25_Witness ==
    /\ PackageBuilt
    /\ a_resp.package.sources = SourceOrder
    /\ DOMAIN a_resp.package.context = {"github", "weather", "time"}

\* Some keyword of the list is a substring of the request's lower-cased query
Mentions(keywords) ==
    LET q == lower(a_req.query) IN
    \E keyword \in keywords : \E i \in 1..Len(q), j \in 1..Len(q) :
        SubSeq(q, i, j) = keyword

\* analyze has been applied to the query of the request
Analyzed == a_pc # "idle"

\* C26: for every query, one without any time keyword included, the need flags
\* returned by analyze have time = true, while github and weather are true
\* exactly when some keyword of their list occurs in the lower-cased query.
C26_TimeForcedTrue ==
    Analyzed =>
        /\ a_locals.needs.time = TRUE
        /\ a_locals.needs.github <=> Mentions(GITHUB_KEYWORDS)
        /\ a_locals.needs.weather <=> Mentions(WEATHER_KEYWORDS)

\* C26 as the code has it: each of github, weather and time is true exactly when
\* some keyword of its own list occurs in the lower-cased query, and the
\* separate flag always_fetch_time is true for every query.
C26_TimeByKeyword ==
    Analyzed =>
        /\ a_locals.needs.time <=> Mentions(TIME_KEYWORDS)
        /\ a_locals.needs.always_fetch_time = TRUE
        /\ a_locals.needs.github <=> Mentions(GITHUB_KEYWORDS)
        /\ a_locals.needs.weather <=> Mentions(WEATHER_KEYWORDS)

\* C26 witness: a query with a GitHub keyword and no time keyword was analysed;
\* its time flag is false and the package still carries the time context
C26_Witness ==
    /\ PackageBuilt
    /\ ~Mentions(TIME_KEYWORDS) /\ Mentions(GITHUB_KEYWORDS)
    /\ ~a_locals.needs.time /\ a_locals.needs.github
    /\ a_locals.needs.always_fetch_time
    /\ Lists("Time/Date")

\* ---------------------------------------------------------------------------
\* Claims about the dashboard
\* ---------------------------------------------------------------------------
AllRows == DOMAIN f_view.col

\* the rows whose value is the column's minimum or maximum
BoundaryRows ==
    {i \in AllRows : /\ ~f_view.col[i].missing
                     /\ f_view.col[i].value \in {SeriesMin(f_view.col),
                                                 SeriesMax(f_view.col)}}

\* C15: with the range filter of a numeric column at the column's full
\* [min, max] span the Raw Data view shows all rows of the dataset, rows with
\* a missing value in that column included; with the range narrowed by one
\* unit on each side exactly the rows holding the boundary values are removed.
C15_FullSpanKeepsAll ==
    f_view.applied =>
        /\ (f_view.lo = SeriesMin(f_view.col) /\ f_view.hi = SeriesMax(f_view.col))
              => f_view.rows = AllRows
        /\ (f_view.lo = SeriesMin(f_view.col) + 1
            /\ f_view.hi = SeriesMax(f_view.col) - 1)
              => f_view.rows = AllRows \ BoundaryRows

\* the files of the last run's batches that did not load
FailedUploads == {d_run.uploads[i].stem : i \in {j \in DOMAIN d_run.uploads : ~d_run.uploads[j].ok}}
FailedInDirectory == {d_run.listing[i].stem : i \in {j \in DOMAIN d_run.listing : ~d_run.listing[j].ok}}
LoadableInBatch ==
    {d_run.uploads[i].stem : i \in {j \in DOMAIN d_run.uploads : d_run.uploads[j].ok}}
        \cup {d_run.listing[i].stem : i \in {j \in DOMAIN d_run.listing : d_run.listing[j].ok}}

\* C16: after any sequence of uploads, directory loads and other interactions
\* the dataset stored under a filename-stem key is the one from the most recent
\* load operation that produced that key (a later load is never replaced by an
\* earlier one), and a file that fails to load is reported while the other
\* files of its batch are still loaded.
C16_LatestLoadWins ==
    /\ \A k \in Stems : d_latest[k] # Absent => d_session[k] = d_latest[k]
    /\ FailedUploads \subseteq d_run.upload_errors
    /\ FailedInDirectory \subseteq d_run.dir_errors
    /\ \A k \in LoadableInBatch : d_session[k] # Absent

\* ---------------------------------------------------------------------------
\* Claims about the Pathfinder
\* ---------------------------------------------------------------------------
\* Two cells one 4-connected step apart
Adjacent(a, c) ==
    \/ a[1] = c[1] /\ (a[2] = c[2] + 1 \/ c[2] = a[2] + 1)
    \/ a[2] = c[2] /\ (a[1] = c[1] + 1 \/ c[1] = a[1] + 1)

IsEmpty(b, c) == c \in Cells /\ b[c[2]][c[1]] = 0

RECURSIVE Closure(_, _)
\* Least set containing S and closed under steps into empty in-bounds cells
Closure(S, b) ==
    LET N == S \cup {n \in Cells : IsEmpty(b, n) /\ \E c \in S : Adjacent(c, n)}
    IN  IF N = S THEN S ELSE Closure(N, b)

\* Cells reachable from start through empty cells, start included
Reachable(start, b) == Closure({start}, b)

RECURSIVE StepsTo(_, _, _, _)
\* Fewest steps from the cells of S (already k steps from the start) to goal through
\* empty cells; -1 if there is no such walk
StepsTo(S, goal, b, k) ==
    IF goal \in S THEN k
    ELSE LET N == S \cup {n \in Cells : IsEmpty(b, n) /\ \E c \in S : Adjacent(c, n)}
         IN  IF N = S THEN -1 ELSE StepsTo(N, goal, b, k + 1)

Distance(start, goal, b) == StepsTo({start}, goal, b, 0)

BothSearched == p_stage \in {"a_star", "flood_fill"}

\* C4: for unoccupied start and goal connected through empty cells, bfs and a_star
\* both return a path, of the same length, and that length is the fewest number of
\* 4-connected steps from start to goal; for start = goal both return <<start>>.
C4_ShortestPaths ==
    BothSearched =>
       /\ (p_start = p_goal) => (p_bfs = <<p_start>> /\ p_a_star = <<p_start>>)
       /\ (/\ IsEmpty(p_board, p_start)
           /\ IsEmpty(p_board, p_goal)
           /\ p_goal \in Reachable(p_start, p_board))
          => /\ p_bfs # NoPath
             /\ p_a_star # NoPath
             /\ Len(p_bfs) = Len(p_a_star)
             /\ Len(p_bfs) - 1 = Distance(p_start, p_goal, p_board)

\* C4 witness: both searches answered for an unoccupied connected pair whose shortest
\* path has to go round an occupied cell
C4_Witness ==
    /\ BothSearched
    /\ IsEmpty(p_board, p_start) /\ IsEmpty(p_board, p_goal)
    /\ p_goal \in Reachable(p_start, p_board)
    /\ Len(p_a_star) = Len(p_bfs)
    /\ Len(p_bfs) - 1 > heuristic(p_start, p_goal)

\* C5: flood_fill returns start, occupied or not, together with every cell reachable
\* from it through empty cells, and nothing else; on an all-empty board that is
\* every one of the width * height cells.
C5_FloodFillIsReachable ==
    p_stage = "flood_fill" =>
       /\ p_fill = Reachable(p_start, p_board)
       /\ (p_board = EmptyBoard) => Cardinality(p_fill) = width * height

\* C5 witness: a fill from an occupied start that reached other cells
C5_Witness ==
    /\ p_stage = "flood_fill"
    /\ p_board[p_start[2]][p_start[1]] = 1
    /\ p_start \in p_fill
    /\ Cardinality(p_fill) > 1

\* A returned path leads from start to goal by 4-connected steps and every cell of it
\* after the first is in bounds and empty
AvoidsOccupied(path, start, goal, b) ==
    /\ path[1] = start
    /\ path[Len(path)] = goal
    /\ \A i \in 1 .. (Len(path) - 1) : Adjacent(path[i], path[i + 1])
    /\ \A i \in 2 .. Len(path) : IsEmpty(b, path[i])

\* C6: every path bfs or a_star returns leads from start to goal over empty in-bounds
\* cells (start excepted), and each returns no path when goal is not reachable from
\* start through empty cells.
C6_PathsAvoidOccupied ==
    BothSearched =>
       \A path \in {p_bfs, p_a_star} :
          /\ path # NoPath => AvoidsOccupied(path, p_start, p_goal, p_board)
          /\ p_goal \notin Reachable(p_start, p_board) => path = NoPath

\* C23: in a_star the open-set entries are removed in order of increasing
\* f = g + h, and among the entries with equal f the one inserted earliest is
\* removed first.
C23_TiesByInsertion ==
    (p_stage \in {"a_star", "flood_fill"}) =>
        LET pops == a_star_pops(p_start, p_goal, p_board)
        IN  \A i \in DOMAIN pops : \A h \in pops[i].heap :
                \/ pops[i].popped.entry[1] < h.entry[1]
                \/ pops[i].popped.entry[1] = h.entry[1] /\ pops[i].popped.n <= h.n

\* ---------------------------------------------------------------------------
\* Claims about play_game and test_agent
\* ---------------------------------------------------------------------------
InPlayGame == pc \in {"pg_loop", "pg_done"}

\* A step of the loop of play_game that applied a turn
TurnApplied == pc = "pg_loop" /\ turn' = turn + 1

\* play_game hands its result back to its caller
Returning == pc = "pg_done" /\ pc' # "pg_done"

\* C7: play_game applies at most max_turns turns, leaves its loop at the first turn
\* whose result is not 'continue' and applies no turn after it, returns 'win', 'lose'
\* or 'draw' ('draw' whenever the game is not over when it stops), and returns.
C7_PlayGameTerminates ==
    /\ [](InPlayGame => turn <= max_turns)
    /\ [][ /\ (TurnApplied /\ result' # "continue") => pc' = "pg_done"
           /\ (TurnApplied /\ result' = "continue") => ~game_over'
           /\ (pc = "pg_done") => UNCHANGED simVars
           /\ Returning => /\ ret' \in {"win", "lose", "draw"}
                           /\ game_over => ret' = winner
                           /\ ~game_over => (ret' = "draw" /\ turn = max_turns) ]_vars
    /\ (pc = "pg_loop") ~> (~InPlayGame)

\* C7 witness: a play_game called directly returned 'draw' because max_turns turns
\* were applied and none of them was decisive
C7_Witness ==
    /\ pc = "exit" /\ ~in_harness
    /\ ret = "draw" /\ ~game_over
    /\ max_turns > 0 /\ turn = max_turns
    /\ result = "continue"

\* C8: test_agent completes for every num_games and every sequence of outcomes, with
\* tallies that sum to num_games.
C8_TestAgentCompletes ==
    ta_outcome # None =>
       /\ ta_outcome = "returned"
       /\ results.win + results.lose + results.draw = num_games

\* ---------------------------------------------------------------------------
\* Claims about make_move
\* ---------------------------------------------------------------------------
\* The step is a make_move applied to a game that was not over, with recognised
\* directions: call' holds my_direction and opp_last_dir' the opponent's.
LiveMove ==
    /\ HasReset
    /\ ~game_over
    /\ call'.op = "make_move"
    /\ ~call'.pre_over
    /\ call'.my \in Dirs
    /\ opp_last_dir' \in Dirs

\* Destination of a step from cell p in direction d, by the arithmetic of the claim
Dest(p, d) ==
    CASE d = "up"    -> <<p[1], p[2] - 1>>
      [] d = "down"  -> <<p[1], p[2] + 1>>
      [] d = "left"  -> <<p[1] - 1, p[2]>>
      [] d = "right" -> <<p[1] + 1, p[2]>>

\* The destination is off the grid or already occupied on the given board
Blocked(b, c) ==
    \/ c[1] < 0 \/ c[1] >= width \/ c[2] < 0 \/ c[2] >= height
    \/ b[c[2]][c[1]] = 1

EndsWith(r) == result' = r /\ game_over' = TRUE /\ winner' = r

\* C1: on a game that is not over, whenever the two destinations are the same cell,
\* or each destination is the other player's current cell (head-on swap), make_move
\* returns 'draw' and the game is over with winner 'draw', valid moves or not.
C1_CoincideIsDraw ==
    [][ LiveMove =>
          LET m == Dest(my_pos, call'.my)
              o == Dest(opp_pos, opp_last_dir')
          IN  (m = o \/ (m = opp_pos /\ o = my_pos)) => EndsWith("draw") ]_vars

\* C1 witness: a draw returned for two moves into the same empty in-bounds cell
C1_Witness ==
    /\ call.op = "make_move" /\ ~call.pre_over
    /\ result = "draw" /\ game_over /\ winner = "draw"
    /\ Dest(my_pos, call.my) = Dest(opp_pos, opp_last_dir)
    /\ ~Blocked(board, Dest(my_pos, call.my))

\* C2: on a game that is not over, only the caller's move blocked gives 'lose', only
\* the opponent's move blocked gives 'win', both blocked gives 'draw', and the game
\* is over with that winner.
C2_CollisionResults ==
    [][ LiveMove =>
          LET mb == Blocked(board, Dest(my_pos, call'.my))
              ob == Blocked(board, Dest(opp_pos, opp_last_dir'))
          IN  /\ (mb /\ ~ob) => EndsWith("lose")
              /\ (~mb /\ ob) => EndsWith("win")
              /\ (mb /\ ob) => EndsWith("draw") ]_vars

\* C2 witness: 'lose' returned when the caller left the grid and the opponent's
\* destination was free
C2_Witness ==
    /\ call.op = "make_move" /\ ~call.pre_over
    /\ result = "lose" /\ game_over /\ winner = "lose"
    /\ Dest(my_pos, call.my) \notin Cells
    /\ ~Blocked(board, Dest(opp_pos, opp_last_dir))

\* C3: once the game is over, a make_move returns the stored winner and changes no
\* field of the simulator.
C3_TerminalIsFrozen ==
    [][ (HasReset /\ game_over /\ call'.op = "make_move") =>
          (result' = winner /\ UNCHANGED simVars) ]_vars

\* C3 witness: a make_move was applied to a finished game
C3_Witness ==
    /\ call.op = "make_move" /\ call.pre_over
    /\ game_over /\ result = winner /\ winner \in {"win", "lose", "draw"}

\* C17: after every reset, a reset following an earlier game on the same
\* simulator included, get_state reports the opponent's last direction as absent
\* until the first make_move of the new game has been applied.
C17_ResetClearsLastDirection ==
    (call.op = "reset") => get_state.opponent_last_direction = None

\* The cells marked on a board
Occupied(b) == {c \in Cells : b[c[2]][c[1]] = 1}

\* C18: make_move returns 'continue' exactly when the destinations differ, there
\* is no head-on swap and neither move collides; then both positions become their
\* destinations, each destination is appended to its player's trail, both
\* destination cells become occupied and no other cell changes. On 'win', 'lose'
\* or 'draw' the positions, the trails and the grid are left unchanged.
C18_ContinueMovesBoth ==
    [][ LiveMove =>
          LET m == Dest(my_pos, call'.my)
              o == Dest(opp_pos, opp_last_dir')
              free == /\ m # o
                      /\ ~(m = opp_pos /\ o = my_pos)
                      /\ ~Blocked(board, m)
                      /\ ~Blocked(board, o)
          IN  /\ (result' = "continue") <=> free
              /\ (result' = "continue") =>
                    /\ my_pos' = m /\ opp_pos' = o
                    /\ my_trail' = Append(my_trail, m)
                    /\ opp_trail' = Append(opp_trail, o)
                    /\ Occupied(board') = Occupied(board) \cup {m, o}
              /\ (result' \in {"win", "lose", "draw"}) =>
                    UNCHANGED <<my_pos, opp_pos, my_trail, opp_trail, board>> ]_vars

\* C18 witness: a turn returned 'continue' and both players stand on the cells
\* their trails end with
C18_Witness ==
    /\ call.op = "make_move" /\ ~call.pre_over
    /\ result = "continue"
    /\ Len(my_trail) > 1 /\ Len(opp_trail) > 1
    /\ my_pos # my_trail[1] /\ opp_pos # opp_trail[1]

TrailCells(trail) == {trail[i] : i \in DOMAIN trail}

\* C19: in every state reached from reset by make_move calls the occupied cells
\* are exactly the cells of the two trails, and each player's position is the
\* last element of that player's trail.
C19_BoardIsTrails ==
    HasReset =>
        /\ Occupied(board) = TrailCells(my_trail) \cup TrailCells(opp_trail)
        /\ my_pos = my_trail[Len(my_trail)]
        /\ opp_pos = opp_trail[Len(opp_trail)]

\* C19 witness: one turn into a game, two trails of two cells on four cells
C19_Witness ==
    /\ call.op = "make_move" /\ ~call.pre_over
    /\ result = "continue"
    /\ turn = 1
    /\ Len(my_trail) = 2 /\ Len(opp_trail) = 2
    /\ Cardinality(Occupied(board)) = 4

\* The directions in which the opponent's destination is on the grid and free
OpenFor(p) == {d \in Dirs : ~Blocked(board, Dest(p, d))}

\* C20: when make_move is called with no opponent direction, the direction used
\* for the opponent is one of its currently valid directions if there is one and
\* 'up' otherwise; such a call returns 'win' only if the opponent had no valid
\* direction at the start of the turn.
C20_AutoOpponentIsValid ==
    [][ (LiveMove /\ call'.auto) =>
          /\ (OpenFor(opp_pos) # {}) => opp_last_dir' \in OpenFor(opp_pos)
          /\ (OpenFor(opp_pos) = {}) => opp_last_dir' = "up"
          /\ (result' = "win") => OpenFor(opp_pos) = {} ]_vars

\* C20 witness: a call without opponent direction returned 'win'; the opponent,
\* walled in on every side, was moved 'up'
C20_Witness ==
    /\ call.op = "make_move" /\ ~call.pre_over /\ call.auto
    /\ result = "win" /\ game_over
    /\ opp_last_dir = "up"
    /\ OpenFor(opp_pos) = {}

\* The step is an assignment by the agent to the snapshot it holds
AgentEdits == g_snap.taken /\ g_snap'.edits = g_snap.edits + 1

\* C21: the grid of the snapshot returned by get_state is a full copy: whatever
\* cell or row of it the agent assigns, the simulator's grid, positions and
\* trails stay as they were, and so does the answer of is_valid_move for every
\* position and direction.
C21_SnapshotIsCopy ==
    [][ AgentEdits =>
          /\ UNCHANGED <<board, my_pos, opp_pos, my_trail, opp_trail>>
          /\ \A p \in Cells, d \in Dirs :
                is_valid_move(p, d)' = is_valid_move(p, d) ]_vars

\* C21 witness: the agent has changed an occupied cell of its snapshot, which
\* now differs from the simulator's grid
C21_Witness ==
    /\ HasReset
    /\ g_snap.taken /\ g_snap.edits > 0
    /\ \E y \in Ys, x \in Xs : board[y][x] = 1 /\ SnapGrid[y][x] = 0

\* C22: a direction that is none of 'up', 'down', 'left', 'right' is an invalid
\* move: is_valid_move is false for it, and make_move on a game that is not over
\* takes it as a collision of the caller who issued it, 'lose' against an
\* opponent move that is free and 'draw' against one that is blocked, ending
\* the game with that winner instead of failing.
C22_UnrecognisedIsCollision ==
    [][ (/\ HasReset /\ ~game_over
         /\ call'.op = "make_move" /\ ~call'.pre_over
         /\ call'.my \in OtherDirs
         /\ opp_last_dir' \in Dirs) =>
          /\ ~is_valid_move(my_pos, call'.my)
          /\ IF Blocked(board, Dest(opp_pos, opp_last_dir'))
             THEN EndsWith("draw")
             ELSE EndsWith("lose") ]_vars

\* The game in progress was started from two distinct start cells
DistinctStarts == HasReset /\ my_trail[1] # opp_trail[1]

\* C27: a game started from two distinct in-bounds cells ends within
\* (width*height - 2)/2 + 1 turns whatever directions the two players choose: no
\* turn after that many has returned 'continue'. Hence on the default 20x18
\* board the turn counter stays below the default max_turns of 1000 while the
\* game runs, and turns_remaining of get_state stays positive.
C27_GameEndsWithinBound ==
    DistinctStarts =>
        /\ turn <= TurnBound
        /\ (turn = TurnBound) => game_over
        /\ TurnBoundOn(DefaultWidth, DefaultHeight) < DefaultMaxTurns
        /\ (TurnBound < DefaultMaxTurns) => get_state.turns_remaining > 0

\* C27 witness: a game that lasted the full number of turns: every turn but the
\* last returned 'continue' and the board has at most one empty cell left
C27_Witness ==
    /\ DistinctStarts
    /\ game_over /\ turn = TurnBound
    /\ Len(my_trail) = TurnBound /\ Len(opp_trail) = TurnBound
    /\ Cardinality(Occupied(board)) >= width * height - 1

\* The turns of the game in progress that returned 'continue': line 109 counts
\* every turn played, and only the turn that ended the game did not
ContinueTurns == IF game_over THEN turn - 1 ELSE turn

\* A sequence of in-bounds cells, each one step from the one before, none twice
IsTrail(trail) ==
    /\ \A i \in DOMAIN trail : trail[i] \in Cells
    /\ \A i \in DOMAIN trail : i > 1 => Adjacent(trail[i - 1], trail[i])
    /\ \A i, j \in DOMAIN trail : trail[i] = trail[j] => i = j

\* C28: in every state reached from a reset with two distinct in-bounds start
\* cells, each trail holds in-bounds cells with consecutive cells 4-adjacent and
\* no cell twice, the two trails share no cell, and each trail is one longer
\* than the number of turns that returned 'continue'.
C28_TrailsWellFormed ==
    DistinctStarts =>
        /\ IsTrail(my_trail)
        /\ IsTrail(opp_trail)
        /\ \A i \in DOMAIN my_trail, j \in DOMAIN opp_trail : my_trail[i] # opp_trail[j]
        /\ Len(my_trail) = 1 + ContinueTurns
        /\ Len(opp_trail) = 1 + ContinueTurns

\* C28 witness: a finished game in which both trails grew to three cells or more
C28_Witness ==
    /\ DistinctStarts
    /\ game_over
    /\ ContinueTurns >= 2
    /\ Len(my_trail) >= 3 /\ Len(opp_trail) >= 3
    /\ call.op = "make_move"

\* C29: once play_game has returned, the stored state agrees with the value
\* returned: game_over is true and winner is that value, also when the loop
\* stopped because turn reached max_turns.
C29_ReturnAgreesWithState ==
    (ret # None) => (game_over /\ winner = ret)

\* The result as the other player sees it
Mirror(r) ==
    CASE r = "win" -> "lose"
      [] r = "lose" -> "win"
      [] OTHER -> r

\* The value make_move(opp_direction, my_direction) returns in the state with
\* the two players exchanged (positions and trails swapped, the same board)
ExchangedResult(my_direction, opp_direction) ==
    OutcomeFrom(opp_pos, my_pos, opp_direction, my_direction)

\* The successor the exchanged call reaches on 'continue', given as what the
\* state reached by the call itself must be: the exchanged caller's fields are
\* the opponent's fields of that state, and the other way round
ExchangedSuccessor(my_direction, opp_direction) ==
    LET x_my_new_pos == NewPos(opp_pos, opp_direction)
        x_opp_new_pos == NewPos(my_pos, my_direction)
    IN  /\ opp_pos' = x_my_new_pos
        /\ my_pos' = x_opp_new_pos
        /\ opp_trail' = Extend(opp_trail, x_my_new_pos)
        /\ my_trail' = Extend(my_trail, x_opp_new_pos)
        /\ board' = Occupy(board, x_my_new_pos, x_opp_new_pos)
        /\ turn' = turn + 1
        /\ ~game_over' /\ winner' = None

\* C30: make_move with explicit directions is symmetric in the two players: for
\* every turn of a running game, the call with the players and the directions
\* exchanged returns 'lose' for 'win', 'win' for 'lose', and the same 'draw' or
\* 'continue'; on 'continue' it reaches the successor with the players exchanged.
C30_PlayersSymmetric ==
    [][ (LiveMove /\ ~call'.auto) =>
            LET my_direction == call'.my
                opp_direction == opp_last_dir'
                res == ExchangedResult(my_direction, opp_direction)
            IN  /\ res = Mirror(result')
                /\ (res = "continue") => ExchangedSuccessor(my_direction, opp_direction)
      ]_vars

\* C30 witness: a turn one player won by the other's collision, from a state
\* whose trails differ in more than the start cell
C30_Witness ==
    /\ call.op = "make_move" /\ ~call.pre_over /\ ~call.auto
    /\ result \in {"win", "lose"}
    /\ Len(my_trail) >= 2
    /\ OutcomeFrom(opp_pos, my_pos, opp_last_dir, call.my) = Mirror(result)

====
